---- MODULE Spec2Model ----
(***************************************************************************)
(* Model of the coupled fluid / plate / fin time-marching solver of the    *)
(* GPU cooling simulation (src/src/solucionador.py and the solvers it      *)
(* drives).                                                                *)
(*                                                                         *)
(* Real quantities are kept as scaled integers, rounded toward zero after  *)
(* every multiplication, the way the floating-point code rounds:           *)
(*   length        1 unit = 1/6 mm      (0.03 m  = 180)                    *)
(*   time          1 unit = 1 microsecond                                  *)
(*   temperature   1 unit = 1 mK        (296.15 K = 296150)                *)
(*   dimensionless coefficients (CFL, Fourier numbers, ...) in ppm         *)
(* The grids are coarse: the node counts are bounds of the model.          *)
(***************************************************************************)
EXTENDS Integers, Sequences, FiniteSets, TLC

\* ------------------------------------------------------------------------
\* Bounds of the model: node counts of the coarse grids and run lengths
\* ------------------------------------------------------------------------
Nx_fluido == 4
Nx_placa == 4
Ny_placa == 3
Nr_aleta == 3
Ntheta_aleta == 4
MaxPasos == 4
MaxGuardarCada == 3

\* ------------------------------------------------------------------------
\* Parametros: geometry and operating constants (parametros.py, Tablas I-III)
\* ------------------------------------------------------------------------
L_x == 180
W == 600
e_base == 60
e_agua == 18
R == 24
x_aleta_1 == 30
x_aleta_2 == 90
x_aleta_3 == 150
u == 666
h_agua == 600
h_aire == 10
T_inf == 296150
T_inicial == 296150
T_f_in == 353150
\* rho_agua in 0.1 kg/m3 (980.5 kg/m3), cp_agua in J/(kg K)
rho_agua == 9805
cp_agua == 4180
\* np.pi as the rational PiNum / PiDen
PiNum == 22
PiDen == 7

Materiales == {"Al", "SS"}

\* set_material: alpha_s in (1/6 mm)^2/s, k_s in 0.1 W/(m K), rho_s, cp_s in SI
alpha_s(material) == IF material = "Al" THEN 2473 ELSE 146
k_s(material) == IF material = "Al" THEN 1670 ELSE 162
rho_s(material) == IF material = "Al" THEN 2700 ELSE 8000
cp_s(material) == IF material = "Al" THEN 900 ELSE 500

\* ------------------------------------------------------------------------
\* Arithmetic helpers
\* ------------------------------------------------------------------------
Abs(a) == IF a < 0 THEN -a ELSE a
Min(a, b) == IF a <= b THEN a ELSE b
Max(a, b) == IF a >= b THEN a ELSE b

\* a / b rounded toward zero
Div(a, b) == IF a >= 0 THEN a \div b ELSE -((-a) \div b)

\* c * d / 10^6 for a coefficient c in ppm (0 <= c <= 2*10^6) and a
\* temperature difference d in mK, without leaving 32 bits
MulPpm(c, d) ==
    LET a == Abs(d)
        m == (c * (a \div 1000) + (c * (a % 1000)) \div 1000) \div 1000
    IN IF d < 0 THEN -m ELSE m

RECURSIVE SumaSeq(_)
SumaSeq(s) == IF s = <<>> THEN 0 ELSE Head(s) + SumaSeq(Tail(s))

RECURSIVE MaxSeq(_)
MaxSeq(s) == IF Len(s) = 1 THEN s[1] ELSE Max(Head(s), MaxSeq(Tail(s)))

RECURSIVE MinSeq(_)
MinSeq(s) == IF Len(s) = 1 THEN s[1] ELSE Min(Head(s), MinSeq(Tail(s)))

\* ------------------------------------------------------------------------
\* Grids (mallas.py): np.linspace coordinates and spacings
\* ------------------------------------------------------------------------
dx_fluido == L_x \div (Nx_fluido - 1)
dx_placa == L_x \div (Nx_placa - 1)
dy_placa == e_base \div (Ny_placa - 1)
dr_aleta == R \div (Nr_aleta - 1)

IdxFluido == 0 .. (Nx_fluido - 1)
IdxPlacaX == 0 .. (Nx_placa - 1)
IdxPlacaY == 0 .. (Ny_placa - 1)
IdxR == 0 .. (Nr_aleta - 1)
IdxTheta == 0 .. (Ntheta_aleta - 1)
Aletas == 0 .. 2

x_fluido == [i \in IdxFluido |-> i * dx_fluido]
x_placa == [i \in IdxPlacaX |-> i * dx_placa]
y_placa == [j \in IdxPlacaY |-> j * dy_placa]
r_array == [j \in IdxR |-> j * dr_aleta]
\* the third fin centred half a radius from the end of the plate
x_aletas_desbordada(k) ==
    IF k = 0 THEN x_aleta_1 ELSE IF k = 1 THEN x_aleta_2 ELSE L_x - (R \div 2)
x_aletas(k) == IF k = 0 THEN x_aleta_1 ELSE IF k = 1 THEN x_aleta_2 ELSE x_aleta_3

\* 1 / (r_j * dtheta)^2 in ppm of (1/6 mm)^-2, dtheta = pi / (Ntheta - 1)
InvRDtheta2(rj) ==
    (1000000 * PiDen * PiDen * (Ntheta_aleta - 1) * (Ntheta_aleta - 1))
        \div (rj * rj * PiNum * PiNum)

\* ------------------------------------------------------------------------
\* Parametros.__init__: the plate/fluid time step [microseconds]
\* ------------------------------------------------------------------------
Fo_total_inv ==
    (1000000 \div (dx_placa * dx_placa)) + (1000000 \div (dy_placa * dy_placa))
dt_max_fourier(material) ==
    500000000 \div ((alpha_s(material) * Fo_total_inv) \div 1000)
dt_max_cfl == (dx_fluido * 1000000) \div u
\* the step taken above both limits instead of at 80 % of the smaller one
params_dt_sin_margen(material) ==
    (13 * Min(dt_max_fourier(material), dt_max_cfl)) \div 10
params_dt(material) ==
    (8 * Min(dt_max_fourier(material), dt_max_cfl)) \div 10

\* Parametros.gamma [ppm / s]
gamma == (h_agua * 1000000) \div ((rho_agua * cp_agua * e_agua) \div 60000)

\* ------------------------------------------------------------------------
\* calcular_dt_aletas: the stability-limited fin step [microseconds]
\* ------------------------------------------------------------------------
factor_estabilidad(material) ==
    (alpha_s(material)
        * ((1000000 \div (dr_aleta * dr_aleta)) + InvRDtheta2(dr_aleta))) \div 1000
dt_seguro(material) == (8 * (500000000 \div factor_estabilidad(material))) \div 10
\* the two assertions of calcular_dt_aletas
DtAletasValido(material) ==
    dt_seguro(material) > 0 /\ dt_seguro(material) < params_dt(material)

\* the ratio rounded down instead of up
n_subpasos_aletas_piso(material) == params_dt(material) \div dt_seguro(material)

\* resolver_sistema, PASO 2
n_subpasos_aletas(material) ==
    (params_dt(material) + dt_seguro(material) - 1) \div dt_seguro(material)
dt_aletas_ajustado(material) == params_dt(material) \div n_subpasos_aletas(material)

\* c * d / 1000 for a coefficient c (0 <= c <= 2*10^6) and |d| < 10^6
MulMilli(c, d) ==
    LET a == Abs(d)
        m == c * (a \div 1000) + (c * (a % 1000)) \div 1000
    IN IF d < 0 THEN -m ELSE m

\* The values of a field as a sequence, to fold over
RECURSIVE SeqDe(_, _, _)
SeqDe(f, lo, hi) == IF lo > hi THEN <<>> ELSE <<f[lo]>> \o SeqDe(f, lo + 1, hi)

\* An exception-or-value result of a call
Ok(v) == [error |-> "none", valor |-> v]
Falla(e) == [error |-> e, valor |-> <<>>]

\* np.interp(x, xp, fp): piecewise linear, constant outside [xp[0], xp[n-1]]
NpInterp(x, xp, fp, n) ==
    IF x <= xp[0] THEN fp[0]
    ELSE IF x >= xp[n - 1] THEN fp[n - 1]
    ELSE LET i == CHOOSE c \in 0 .. (n - 2) : xp[c] <= x /\ x < xp[c + 1]
         IN fp[i] + Div((fp[i + 1] - fp[i]) * (x - xp[i]), xp[i + 1] - xp[i])

\* ------------------------------------------------------------------------
\* fluido.py
\* ------------------------------------------------------------------------
inicializar_fluido == [i \in IdxFluido |-> IF i = 0 THEN T_f_in ELSE T_inicial]

\* CFL = u * dt / dx  [ppm]
CFL(dt) == (u * dt) \div dx_fluido

\* the fluid update with the advection difference taken downstream
FluidoNuevo_aguas_abajo(T_fluido_old, T_s, dt) ==
    LET interior(i) ==
            T_fluido_old[i]
            - MulPpm(CFL(dt), T_fluido_old[i + 1] - T_fluido_old[i])
            - MulPpm(MulPpm(gamma, dt), T_fluido_old[i] - T_s[i])
    IN [i \in IdxFluido |->
            IF i = 0 THEN T_f_in
            ELSE IF i = Nx_fluido - 1 THEN interior(Nx_fluido - 2)
            ELSE interior(i)]

\* the fluid update with the outlet copying the old value of its neighbour
FluidoNuevo_salida_anterior(T_fluido_old, T_s, dt) ==
    LET interior(i) ==
            T_fluido_old[i]
            - MulPpm(CFL(dt), T_fluido_old[i] - T_fluido_old[i - 1])
            - MulPpm(MulPpm(gamma, dt), T_fluido_old[i] - T_s[i])
    IN [i \in IdxFluido |->
            IF i = 0 THEN T_f_in
            ELSE IF i = Nx_fluido - 1 THEN T_fluido_old[Nx_fluido - 2]
            ELSE interior(i)]

\* Ecuacion 11 and the two boundary conditions
FluidoNuevo(T_fluido_old, T_s, dt) ==
    LET interior(i) ==
            T_fluido_old[i]
            - MulPpm(CFL(dt), T_fluido_old[i] - T_fluido_old[i - 1])
            - MulPpm(MulPpm(gamma, dt), T_fluido_old[i] - T_s[i])
    IN [i \in IdxFluido |->
            IF i = 0 THEN T_f_in
            ELSE IF i = Nx_fluido - 1 THEN interior(Nx_fluido - 2)
            ELSE interior(i)]

RangoFluido(T) == \A i \in DOMAIN T : 200000 < T[i] /\ T[i] < 400000

\* the fluid update with its result clamped into the range instead of checked
actualizar_fluido_recortado(T_fluido_old, T_superficie_placa, dt) ==
    IF ~(CFL(dt) < 1000000) THEN Falla("AssertionError")
    ELSE LET T_fluido_new == FluidoNuevo(T_fluido_old, T_superficie_placa, dt)
         IN Ok([i \in IdxFluido |-> Max(200001, Min(399999, T_fluido_new[i]))])

actualizar_fluido(T_fluido_old, T_superficie_placa, dt) ==
    IF ~(CFL(dt) < 1000000) THEN Falla("AssertionError")
    ELSE LET T_s == IF DOMAIN T_superficie_placa # IdxFluido
                    THEN [i \in IdxFluido |->
                            NpInterp(x_fluido[i], x_placa, T_superficie_placa, Nx_placa)]
                    ELSE T_superficie_placa
             T_fluido_new == FluidoNuevo(T_fluido_old, T_s, dt)
         IN IF RangoFluido(T_fluido_new) THEN Ok(T_fluido_new)
            ELSE Falla("AssertionError")

\* ------------------------------------------------------------------------
\* placa.py
\* ------------------------------------------------------------------------
inicializar_placa == [i \in IdxPlacaX |-> [j \in IdxPlacaY |-> T_inicial]]

Fo_x(material, dt) == (alpha_s(material) * dt) \div (dx_placa * dx_placa)
Fo_y(material, dt) == (alpha_s(material) * dt) \div (dy_placa * dy_placa)
\* h * dy / k_s  [ppm]
coef_agua(material) == (h_agua * dy_placa * 10000) \div (6 * k_s(material))
coef_aire(material) == (h_aire * dy_placa * 10000) \div (6 * k_s(material))

interpolar_fluido_a_placa(T_fluido) ==
    IF Nx_fluido = Nx_placa THEN T_fluido
    ELSE [i \in IdxPlacaX |-> NpInterp(x_placa[i], x_fluido, T_fluido, Nx_fluido)]

\* the plate node with the air face exchanging with the inlet temperature
PlacaNodo_aire_a_T_f_in(T, T_f, material, dt, i, j) ==
    LET dxx == T[i + 1][j] - 2 * T[i][j] + T[i - 1][j]
    IN IF j = 0
       THEN T[i][j] + MulPpm(Fo_x(material, dt), dxx)
            + MulPpm(2 * Fo_y(material, dt),
                     (T[i][1] - T[i][j]) - MulPpm(coef_agua(material), T[i][j] - T_f[i]))
       ELSE IF j = Ny_placa - 1
       THEN T[i][j] + MulPpm(Fo_x(material, dt), dxx)
            + MulPpm(2 * Fo_y(material, dt),
                     (T[i][Ny_placa - 2] - T[i][j]) - MulPpm(coef_aire(material), T[i][j] - T_f_in))
       ELSE T[i][j] + MulPpm(Fo_x(material, dt), dxx)
            + MulPpm(Fo_y(material, dt), T[i][j + 1] - 2 * T[i][j] + T[i][j - 1])

\* Ecuaciones 11, 12, 13 at a node that is interior in x
PlacaNodo(T, T_f, material, dt, i, j) ==
    LET dxx == T[i + 1][j] - 2 * T[i][j] + T[i - 1][j]
    IN IF j = 0
       THEN T[i][j] + MulPpm(Fo_x(material, dt), dxx)
            + MulPpm(2 * Fo_y(material, dt),
                     (T[i][1] - T[i][j]) - MulPpm(coef_agua(material), T[i][j] - T_f[i]))
       ELSE IF j = Ny_placa - 1
       THEN T[i][j] + MulPpm(Fo_x(material, dt), dxx)
            + MulPpm(2 * Fo_y(material, dt),
                     (T[i][Ny_placa - 2] - T[i][j]) - MulPpm(coef_aire(material), T[i][j] - T_inf))
       ELSE T[i][j] + MulPpm(Fo_x(material, dt), dxx)
            + MulPpm(Fo_y(material, dt), T[i][j + 1] - 2 * T[i][j] + T[i][j - 1])

\* the plate update with the lateral edges keeping their old values
PlacaNueva_bordes_fijos(T_placa_old, T_f, material, dt) ==
    [i \in IdxPlacaX |-> [j \in IdxPlacaY |->
        IF i = 0 \/ i = Nx_placa - 1 THEN T_placa_old[i][j]
        ELSE PlacaNodo(T_placa_old, T_f, material, dt, i, j)]]

\* the lateral edges copy the new value of their neighbour
PlacaNueva(T_placa_old, T_f, material, dt) ==
    [i \in IdxPlacaX |-> [j \in IdxPlacaY |->
        LET ii == IF i = 0 THEN 1 ELSE IF i = Nx_placa - 1 THEN Nx_placa - 2 ELSE i
        IN PlacaNodo(T_placa_old, T_f, material, dt, ii, j)]]

RangoPlaca(T) ==
    \A i \in DOMAIN T : \A j \in DOMAIN T[i] : 200000 < T[i][j] /\ T[i][j] < 400000

\* the plate update without its Fourier assertion
actualizar_placa_sin_criterio(T_placa_old, T_fluido, material, dt) ==
    LET T_placa_new ==
            PlacaNueva(T_placa_old, interpolar_fluido_a_placa(T_fluido), material, dt)
    IN IF RangoPlaca(T_placa_new) THEN Ok(T_placa_new) ELSE Falla("AssertionError")

actualizar_placa(T_placa_old, T_fluido, material, dt) ==
    IF ~(Fo_x(material, dt) + Fo_y(material, dt) < 500000) THEN Falla("AssertionError")
    ELSE LET T_placa_new ==
                PlacaNueva(T_placa_old, interpolar_fluido_a_placa(T_fluido), material, dt)
         IN IF RangoPlaca(T_placa_new) THEN Ok(T_placa_new) ELSE Falla("AssertionError")

\* ------------------------------------------------------------------------
\* aletas.py
\* ------------------------------------------------------------------------
inicializar_aleta == [m \in IdxTheta |-> [j \in IdxR |-> T_inicial]]

Fo_r(material, dt) == (alpha_s(material) * dt) \div (dr_aleta * dr_aleta)
\* Fo_theta / (r_j * dtheta)^2  [ppm], Fo_theta = alpha * dt
Fo_theta_efectivo(material, dt, rj) ==
    (((alpha_s(material) * dt) \div 1000) * InvRDtheta2(rj)) \div 1000
beta_aire(material) == (h_aire * dr_aleta * 10000) \div (6 * k_s(material))

RangoAleta(T) ==
    \A m \in DOMAIN T : \A j \in DOMAIN T[m] : 200000 <= T[m][j] /\ T[m][j] <= 500000

\* Ecuacion 16: the centre node of every angular index, from that index's
\* own first ring
actualizar_centro_aleta(T_old, For) ==
    IF ~(0 < For /\ For < 1000000) THEN Falla("AssertionError")
    ELSE LET T_centro_new ==
                [m \in IdxTheta |-> T_old[m][0] + MulPpm(2 * For, T_old[m][1] - T_old[m][0])]
         IN IF \A m \in IdxTheta : 200000 <= T_centro_new[m] /\ T_centro_new[m] <= 500000
            THEN Ok(T_centro_new)
            ELSE Falla("AssertionError")

\* Ecuacion 15 on j = 1..Nr-2, m = 1..Ntheta-2; every other node is copied
actualizar_interior_aleta(T_old, material, dt) ==
    [m \in IdxTheta |-> [j \in IdxR |->
        IF m \in 1 .. (Ntheta_aleta - 2) /\ j \in 1 .. (Nr_aleta - 2)
        THEN LET diff_r_2nd == T_old[m][j + 1] - 2 * T_old[m][j] + T_old[m][j - 1]
                 diff_r_1st == T_old[m][j + 1] - T_old[m][j - 1]
                 diff_theta_2nd == T_old[m + 1][j] - 2 * T_old[m][j] + T_old[m - 1][j]
             IN T_old[m][j]
                + MulPpm(Fo_r(material, dt),
                         diff_r_2nd + Div(dr_aleta * diff_r_1st, r_array[j]))
                + MulPpm(Fo_theta_efectivo(material, dt, r_array[j]), diff_theta_2nd)
        ELSE T_old[m][j]]]

\* the outer ring with the convective term entering with the opposite sign
aplicar_bc_superficie_aleta_signo_opuesto(T_new, T_old, material, dt) ==
    [m \in IdxTheta |-> [j \in IdxR |->
        IF m \in 1 .. (Ntheta_aleta - 2) /\ j = Nr_aleta - 1
        THEN LET T_sup_old == T_old[m][j]
                 T_interior_old == T_old[m][j - 1]
                 diff_theta_2nd == T_old[m + 1][j] - 2 * T_old[m][j] + T_old[m - 1][j]
             IN T_sup_old
                + MulPpm(2 * Fo_r(material, dt),
                         (T_interior_old - T_sup_old)
                         + MulPpm(beta_aire(material), T_sup_old - T_inf))
                + MulPpm(Fo_theta_efectivo(material, dt, R), diff_theta_2nd)
        ELSE T_new[m][j]]]

\* Ecuacion 14 on j = Nr-1, m = 1..Ntheta-2
aplicar_bc_superficie_aleta(T_new, T_old, material, dt) ==
    [m \in IdxTheta |-> [j \in IdxR |->
        IF m \in 1 .. (Ntheta_aleta - 2) /\ j = Nr_aleta - 1
        THEN LET T_sup_old == T_old[m][j]
                 T_interior_old == T_old[m][j - 1]
                 diff_theta_2nd == T_old[m + 1][j] - 2 * T_old[m][j] + T_old[m - 1][j]
             IN T_sup_old
                + MulPpm(2 * Fo_r(material, dt),
                         (T_interior_old - T_sup_old)
                         - MulPpm(beta_aire(material), T_sup_old - T_inf))
                + MulPpm(Fo_theta_efectivo(material, dt, R), diff_theta_2nd)
        ELSE T_new[m][j]]]

\* zero-gradient rows at theta = 0 and theta = pi
aplicar_bc_theta_aleta(T_new) ==
    [m \in IdxTheta |->
        IF m = 0 THEN T_new[1]
        ELSE IF m = Ntheta_aleta - 1 THEN T_new[Ntheta_aleta - 2]
        ELSE T_new[m]]

MaxAbsDiffAleta(A, B) ==
    MaxSeq([m \in 1 .. Ntheta_aleta |->
        MaxSeq([j \in 1 .. Nr_aleta |-> Abs(A[m - 1][j - 1] - B[m - 1][j - 1])])])

actualizar_aleta(T_aleta_old, material, k_aleta, dt) ==
    IF ~(RangoAleta(T_aleta_old) /\ dt > 0 /\ k_aleta \in Aletas)
    THEN Falla("AssertionError")
    ELSE IF ~(Fo_r(material, dt) + Fo_theta_efectivo(material, dt, r_array[1]) < 500000)
    THEN Falla("AssertionError")
    ELSE LET centro == actualizar_centro_aleta(T_aleta_old, Fo_r(material, dt))
         IN IF centro.error # "none" THEN centro
            ELSE LET T_1 == actualizar_interior_aleta(T_aleta_old, material, dt)
                     T_2 == [m \in IdxTheta |-> [T_1[m] EXCEPT ![0] = centro.valor[m]]]
                     T_3 == aplicar_bc_superficie_aleta(T_2, T_aleta_old, material, dt)
                     T_4 == aplicar_bc_theta_aleta(T_3)
                 IN IF RangoAleta(T_4) /\ MaxAbsDiffAleta(T_4, T_aleta_old) < 50000
                    THEN Ok(T_4)
                    ELSE Falla("AssertionError")

\* ------------------------------------------------------------------------
\* acoplamiento.py
\* ------------------------------------------------------------------------
MinPlaca(T) ==
    MinSeq([i \in 1 .. Nx_placa |-> MinSeq([j \in 1 .. Ny_placa |-> T[i - 1][j - 1]])])
MaxPlaca(T) ==
    MaxSeq([i \in 1 .. Nx_placa |-> MaxSeq([j \in 1 .. Ny_placa |-> T[i - 1][j - 1]])])

extraer_temperatura_superficie_placa(T_placa) ==
    LET T_superficie == [i \in IdxPlacaX |-> T_placa[i][0]]
    IN IF \A i \in IdxPlacaX : 200000 < T_superficie[i] /\ T_superficie[i] < 500000
       THEN Ok(T_superficie)
       ELSE Falla("AssertionError")

interpolar_temperatura_para_fluido(T_superficie_placa) ==
    IF Nx_fluido = Nx_placa /\ \A i \in IdxFluido : x_fluido[i] = x_placa[i]
    THEN T_superficie_placa
    ELSE [i \in IdxFluido |-> NpInterp(x_fluido[i], x_placa, T_superficie_placa, Nx_placa)]

\* cos(theta) at the two angles the coupler uses
Cos(theta) == IF theta = "0" THEN 1 ELSE -1

\* the mapping with the angle dropped
mapear_coordenadas_sin_angulo(r, theta, x_centro_aleta, y_base_placa) ==
    <<x_centro_aleta + r, y_base_placa>>

mapear_coordenadas_placa_a_aleta(r, theta, x_centro_aleta, y_base_placa) ==
    <<x_centro_aleta + r * Cos(theta), y_base_placa>>

\* RegularGridInterpolator(method='linear') at one point inside the grid
Bilineal(T_placa, x, y) ==
    LET i == CHOOSE c \in 0 .. (Nx_placa - 2) :
                 /\ x_placa[c] <= x
                 /\ (x < x_placa[c + 1] \/ c = Nx_placa - 2)
        j == CHOOSE c \in 0 .. (Ny_placa - 2) :
                 /\ y_placa[c] <= y
                 /\ (y < y_placa[c + 1] \/ c = Ny_placa - 2)
        wx == x - x_placa[i]
        wy == y - y_placa[j]
    IN Div((dx_placa - wx) * (dy_placa - wy) * T_placa[i][j]
           + wx * (dy_placa - wy) * T_placa[i + 1][j]
           + (dx_placa - wx) * wy * T_placa[i][j + 1]
           + wx * wy * T_placa[i + 1][j + 1],
           dx_placa * dy_placa)

interpolar_temperatura_placa_2d(T_placa, punto) ==
    IF ~(/\ punto[1] >= x_placa[0] /\ punto[1] <= x_placa[Nx_placa - 1]
         /\ punto[2] >= y_placa[0] /\ punto[2] <= y_placa[Ny_placa - 1])
    THEN Falla("AssertionError")
    ELSE LET T_interpolada == Bilineal(T_placa, punto[1], punto[2])
         IN IF /\ T_interpolada >= MinPlaca(T_placa) - 1000
               /\ T_interpolada <= MaxPlaca(T_placa) + 1000
            THEN Ok(T_interpolada)
            ELSE Falla("AssertionError")

\* the plate temperature under node j of the row at angle theta of fin k
PlacaEnAleta(T_placa, k, theta, j) ==
    interpolar_temperatura_placa_2d(T_placa,
        mapear_coordenadas_placa_a_aleta(r_array[j], theta, x_aletas(k), e_base))

aplicar_acoplamiento_placa_aletas(T_placa, T_aletas) ==
    IF \E k \in Aletas : \E j \in IdxR :
          \/ PlacaEnAleta(T_placa, k, "0", j).error # "none"
          \/ PlacaEnAleta(T_placa, k, "pi", j).error # "none"
    THEN Falla("AssertionError")
    ELSE LET T_aletas_acopladas ==
                [k \in Aletas |-> [m \in IdxTheta |->
                    IF m = 0
                    THEN [j \in IdxR |-> PlacaEnAleta(T_placa, k, "0", j).valor]
                    ELSE IF m = Ntheta_aleta - 1
                    THEN [j \in IdxR |-> PlacaEnAleta(T_placa, k, "pi", j).valor]
                    ELSE T_aletas[k][m]]]
         IN IF \A k \in Aletas : \A m \in IdxTheta : \A j \in IdxR :
                   /\ T_aletas_acopladas[k][m][j] > 200000
                   /\ T_aletas_acopladas[k][m][j] < 500000
            THEN Ok(T_aletas_acopladas)
            ELSE Falla("AssertionError")

\* ------------------------------------------------------------------------
\* solucionador.py: pure helpers
\* ------------------------------------------------------------------------
MaxAbsDiffFluido(A, B) == MaxSeq([i \in 1 .. Nx_fluido |-> Abs(A[i - 1] - B[i - 1])])
MaxAbsDiffPlaca(A, B) ==
    MaxSeq([i \in 1 .. Nx_placa |->
        MaxSeq([j \in 1 .. Ny_placa |-> Abs(A[i - 1][j - 1] - B[i - 1][j - 1])])])

\* |dT| / dt  [mK/s] for |dT| in mK and dt in microseconds
Tasa(delta, dt) == ((delta * 1000) \div dt) * 1000 + (((delta * 1000) % dt) * 1000) \div dt

\* the convergence check with the third fin left out of the maximum
verificar_convergencia_sin_tercera_aleta(Tf_new, Tf_old, Tp_new, Tp_old, Ta_new, Ta_old, dt, eps) ==
    LET rate_fluido == Tasa(MaxAbsDiffFluido(Tf_new, Tf_old), dt)
        rate_placa == Tasa(MaxAbsDiffPlaca(Tp_new, Tp_old), dt)
        rate_aletas == [k \in Aletas |-> Tasa(MaxAbsDiffAleta(Ta_new[k], Ta_old[k]), dt)]
        max_rate_total == MaxSeq(<<rate_fluido, rate_placa, rate_aletas[0], rate_aletas[1]>>)
    IN [converged |-> max_rate_total < eps, max_rate |-> max_rate_total]

verificar_convergencia(Tf_new, Tf_old, Tp_new, Tp_old, Ta_new, Ta_old, dt, eps) ==
    LET rate_fluido == Tasa(MaxAbsDiffFluido(Tf_new, Tf_old), dt)
        rate_placa == Tasa(MaxAbsDiffPlaca(Tp_new, Tp_old), dt)
        rate_aletas == [k \in Aletas |-> Tasa(MaxAbsDiffAleta(Ta_new[k], Ta_old[k]), dt)]
        max_rate_total ==
            MaxSeq(<<rate_fluido, rate_placa, rate_aletas[0], rate_aletas[1], rate_aletas[2]>>)
    IN [converged |-> max_rate_total < eps, max_rate |-> max_rate_total]

\* the snapshot written over the last one once the history has an entry
guardar_estado_sobre_el_ultimo(h, t, Tf, Tp, Ta) ==
    LET sin_ultimo(q) == IF q = <<>> THEN q ELSE SubSeq(q, 1, Len(q) - 1)
    IN [tiempo |-> Append(sin_ultimo(h.tiempo), t),
        T_fluido |-> Append(sin_ultimo(h.T_fluido), Tf),
        T_placa |-> Append(sin_ultimo(h.T_placa), Tp),
        T_aletas |-> Append(sin_ultimo(h.T_aletas), Ta)]

\* guardar_estado: one more entry in each of the four lists
guardar_estado(h, t, Tf, Tp, Ta) ==
    [tiempo |-> Append(h.tiempo, t),
     T_fluido |-> Append(h.T_fluido, Tf),
     T_placa |-> Append(h.T_placa, Tp),
     T_aletas |-> Append(h.T_aletas, Ta)]

\* calcular_balance_energetico: powers in mW, heat capacities in mJ/K
m_dot == (((u * W * e_agua) \div 1000) * rho_agua) \div 2160
CapFluido == (((rho_agua * cp_agua) \div 1000) * ((dx_fluido * W * e_agua) \div 1000)) \div 2160
CapPlaca(material) ==
    (((rho_s(material) * cp_s(material)) \div 100) * ((dx_placa * dy_placa * W) \div 1000))
        \div 2160
CapAleta(material, j) ==
    LET r_j == IF j = 0 THEN dr_aleta \div 2 ELSE r_array[j]
        dV == (r_j * dr_aleta * W * PiNum) \div (PiDen * (Ntheta_aleta - 1))
    IN (((rho_s(material) * cp_s(material)) \div 100) * (dV \div 1000)) \div 2160

calcular_balance_energetico(Tf, Tp, Ta, Tf_old, Tp_old, Ta_old, material, dt) ==
    LET Q_in == MulMilli((m_dot * cp_agua) \div 1000, T_f_in - Tf[Nx_fluido - 1])
        T_sup_placa ==
            Div(SumaSeq([i \in 1 .. Nx_placa |-> Tp[i - 1][Ny_placa - 1]]), Nx_placa)
        Q_out_placa == MulMilli((h_aire * L_x * W) \div 36000, T_sup_placa - T_inf)
        T_sup_aleta(k) ==
            Div(SumaSeq([m \in 1 .. Ntheta_aleta |-> Ta[k][m - 1][Nr_aleta - 1]]),
                Ntheta_aleta)
        Q_out_aletas ==
            SumaSeq([kk \in 1 .. 3 |->
                MulMilli((h_aire * PiNum * R * W) \div (PiDen * 36000),
                         T_sup_aleta(kk - 1) - T_inf)])
        Q_out == Q_out_placa + Q_out_aletas
        dE_fluido ==
            MulMilli(CapFluido, SumaSeq([i \in 1 .. Nx_fluido |-> Tf[i - 1] - Tf_old[i - 1]]))
        dE_placa ==
            MulMilli(CapPlaca(material),
                SumaSeq([i \in 1 .. Nx_placa |->
                    SumaSeq([j \in 1 .. Ny_placa |-> Tp[i - 1][j - 1] - Tp_old[i - 1][j - 1]])]))
        dE_aletas ==
            SumaSeq([kk \in 1 .. 3 |->
                SumaSeq([jj \in 1 .. Nr_aleta |->
                    MulMilli(CapAleta(material, jj - 1),
                        SumaSeq([m \in 1 .. Ntheta_aleta |->
                            Ta[kk - 1][m - 1][jj - 1] - Ta_old[kk - 1][m - 1][jj - 1]]))])])
        dE_dt == Div((dE_fluido + dE_placa + dE_aletas) * 1000, dt \div 1000)
        error_absoluto == Abs(Q_in - Q_out - dE_dt)
        error_relativo ==
            IF Abs(Q_in) > 0 THEN Div(error_absoluto, Max(1, Abs(Q_in) \div 1000)) ELSE 0
    IN [Q_in |-> Q_in, Q_out |-> Q_out, dE_dt |-> dE_dt, error_relativo |-> error_relativo]

\* guardar_resultados: the arrays of the .npz file.  A missing convergence
\* time is stored as -1.0 s.
guardar_resultados(res, material) ==
    [tiempo |-> res.tiempo,
     T_fluido_historia |-> res.T_fluido,
     T_placa_historia |-> res.T_placa,
     T_aletas_historia |-> res.T_aletas,
     convergencia_alcanzada |-> res.convergencia.alcanzada,
     t_convergencia |-> IF res.convergencia.t_convergencia # <<>>
                        THEN res.convergencia.t_convergencia[1]
                        ELSE -1000000,
     material |-> IF material = "Al" THEN "Aluminio" ELSE "AceroInox",
     alpha |-> alpha_s(material),
     dt_placa |-> params_dt(material),
     balance_energetico |-> res.metricas.balance]

\* visualizacion.cargar_resultados on a file with the keys guardar_resultados
\* writes: the convergence time is the stored number
cargar_resultados(data) ==
    [tiempo |-> data.tiempo,
     T_fluido |-> data.T_fluido_historia,
     T_placa |-> data.T_placa_historia,
     T_aletas |-> data.T_aletas_historia,
     convergencia |->
         [alcanzada |-> data.convergencia_alcanzada,
          t_convergencia |-> <<data.t_convergencia>>],
     metricas |-> [balance |-> data.balance_energetico]]

\* ------------------------------------------------------------------------
\* resolver_sistema as a state machine
\* ------------------------------------------------------------------------
VARIABLES
    material, t_max, epsilon, guardar_cada, calcular_balance,
    pc, n, subpaso, k,
    T_fluido, T_placa, T_aletas,
    T_fluido_old, T_placa_old, T_aletas_old, T_sup_interpolada,
    converged, max_rate, t_actual,
    historico, metricas, balance, error, resultados,
    primera,
    dt, punto, retorno,
    archivo,
    progress_file, progreso, llamador

entradas == <<material, t_max, epsilon, guardar_cada, calcular_balance>>
campos == <<T_fluido, T_placa, T_aletas>>
campos_old == <<T_fluido_old, T_placa_old, T_aletas_old>>
\* a single call of a function of the package: the step size and the query
\* point handed to it, and what it returned
llamada == <<dt, punto, retorno>>
\* what lies around a run: the progress file resolver_sistema was given and
\* its content, and the function that called resolver_sistema
exterior == <<progress_file, progreso, llamador>>
vars == <<material, t_max, epsilon, guardar_cada, calcular_balance, pc, n, subpaso, k,
          T_fluido, T_placa, T_aletas, T_fluido_old, T_placa_old, T_aletas_old,
          T_sup_interpolada, converged, max_rate, t_actual,
          historico, metricas, balance, error, resultados, primera,
          dt, punto, retorno, archivo, progress_file, progreso, llamador>>

\* an absent value (Python None) and a present one
None == <<>>
Some(v) == <<v>>

\* resolver_sistema called on its own, by no function of the front ends
SinLlamador ==
    [funcion |-> "ninguno", pc |-> "ninguno", mostrado |-> None,
     contenedor |-> None, error_container |-> "none", valor |-> None, error |-> "none"]

\* inputs of a run: t_max in half steps of dt, epsilon in mK/s
TMaxValores(mat) == {(c * params_dt(mat)) \div 2 : c \in 0 .. (2 * MaxPasos)}
Epsilones == {1, 100000, 300000, 1000000}

dt_placa == params_dt(material)
\* the number of steps rounded up instead of down
n_pasos_max_hacia_arriba == (t_max + dt_placa - 1) \div dt_placa
n_pasos_max == t_max \div dt_placa

\* the locals of resolver_sistema before its first statement
EstadoInicial ==
    /\ pc = "inicio"
    /\ n = 0 /\ subpaso = 0 /\ k = 0
    /\ T_fluido = inicializar_fluido
    /\ T_placa = inicializar_placa
    /\ T_aletas = [kk \in Aletas |-> inicializar_aleta]
    /\ T_fluido_old = inicializar_fluido
    /\ T_placa_old = inicializar_placa
    /\ T_aletas_old = [kk \in Aletas |-> inicializar_aleta]
    /\ T_sup_interpolada = [i \in IdxFluido |-> T_inicial]
    /\ converged = FALSE
    /\ max_rate = 0
    /\ t_actual = 0
    /\ historico = [tiempo |-> <<>>, T_fluido |-> <<>>, T_placa |-> <<>>, T_aletas |-> <<>>]
    /\ metricas = [balance |-> <<>>, max_rate_historia |-> <<>>]
    /\ balance = None
    /\ error = "none"
    /\ resultados = None

Init ==
    /\ material \in Materiales
    /\ t_max \in TMaxValores(material)
    /\ epsilon \in Epsilones
    /\ guardar_cada \in 1 .. MaxGuardarCada
    /\ calcular_balance \in BOOLEAN
    /\ primera = None
    /\ dt = params_dt(material) /\ punto = <<0, 0>> /\ retorno = None
    /\ archivo = None
    /\ progress_file = None /\ progreso = None /\ llamador = SinLlamador
    /\ EstadoInicial

\* an exception leaves resolver_sistema: nothing is returned
Abortar(e) == pc' = "abortado" /\ error' = e

\* PASO 1-3: fields, fin time step, first snapshot at t = 0
Configurar ==
    /\ pc = "inicio"
    /\ IF DtAletasValido(material)
       THEN /\ historico' = guardar_estado(historico, 0, T_fluido, T_placa, T_aletas)
            /\ pc' = "bucle"
            /\ UNCHANGED error
       ELSE /\ Abortar("AssertionError")
            /\ UNCHANGED historico
    /\ UNCHANGED <<exterior, archivo, llamada, primera, entradas, n, subpaso, k, campos, campos_old, T_sup_interpolada,
                   converged, max_rate, t_actual, metricas, resultados, balance>>

\* the step started without saving the fields
IniciarPaso_sin_copias ==
    /\ pc = "bucle"
    /\ IF n < n_pasos_max
       THEN /\ t_actual' = (n + 1) * dt_placa
            /\ pc' = "acople_fluido"
       ELSE /\ pc' = "resultados"
            /\ UNCHANGED t_actual
    /\ UNCHANGED <<exterior, archivo, llamada, primera, entradas, n, subpaso, k, campos, campos_old,
                   T_sup_interpolada,
                   converged, max_rate, historico, metricas, error, resultados, balance>>

\* for n in range(n_pasos_max): the time of the step and the copies of the fields
IniciarPaso ==
    /\ pc = "bucle"
    /\ IF n < n_pasos_max
       THEN /\ t_actual' = (n + 1) * dt_placa
            /\ T_fluido_old' = T_fluido
            /\ T_placa_old' = T_placa
            /\ T_aletas_old' = T_aletas
            /\ pc' = "acople_fluido"
       ELSE /\ pc' = "resultados"
            /\ UNCHANGED <<t_actual, campos_old>>
    /\ UNCHANGED <<exterior, archivo, llamada, primera, entradas, n, subpaso, k, campos, T_sup_interpolada,
                   converged, max_rate, historico, metricas, error, resultados, balance>>

\* 4.1: surface of the plate for the fluid
AcoplarFluido ==
    /\ pc = "acople_fluido"
    /\ LET sup == extraer_temperatura_superficie_placa(T_placa)
       IN IF sup.error = "none"
          THEN /\ T_sup_interpolada' = interpolar_temperatura_para_fluido(sup.valor)
               /\ pc' = "fluido"
               /\ UNCHANGED error
          ELSE /\ Abortar(sup.error)
               /\ UNCHANGED T_sup_interpolada
    /\ UNCHANGED <<exterior, archivo, llamada, primera, entradas, n, subpaso, k, campos, campos_old,
                   converged, max_rate, t_actual, historico, metricas, resultados, balance>>

\* 4.2: the fluid
AvanzarFluido ==
    /\ pc = "fluido"
    /\ LET res == actualizar_fluido(T_fluido, T_sup_interpolada, dt_placa)
       IN IF res.error = "none"
          THEN /\ T_fluido' = res.valor
               /\ pc' = "placa"
               /\ UNCHANGED error
          ELSE /\ Abortar(res.error)
               /\ UNCHANGED T_fluido
    /\ UNCHANGED <<exterior, archivo, llamada, primera, entradas, n, subpaso, k, T_placa, T_aletas, campos_old,
                   T_sup_interpolada, converged, max_rate, t_actual,
                   historico, metricas, resultados, balance>>

\* the plate advanced against the fluid of the previous step
AvanzarPlaca_fluido_anterior ==
    /\ pc = "placa"
    /\ LET res == actualizar_placa(T_placa, T_fluido_old, material, dt_placa)
       IN IF res.error = "none"
          THEN /\ T_placa' = res.valor
               /\ pc' = "acople_aletas"
               /\ subpaso' = 0
               /\ UNCHANGED error
          ELSE /\ Abortar(res.error)
               /\ UNCHANGED <<T_placa, subpaso>>
    /\ UNCHANGED <<exterior, archivo, llamada, primera, entradas, n, k, T_fluido, T_aletas, campos_old,
                   T_sup_interpolada, converged, max_rate, t_actual,
                   historico, metricas, resultados, balance>>

\* 4.3: the plate, against the fluid just computed
AvanzarPlaca ==
    /\ pc = "placa"
    /\ LET res == actualizar_placa(T_placa, T_fluido, material, dt_placa)
       IN IF res.error = "none"
          THEN /\ T_placa' = res.valor
               /\ pc' = "acople_aletas"
               /\ subpaso' = 0
               /\ UNCHANGED error
          ELSE /\ Abortar(res.error)
               /\ UNCHANGED <<T_placa, subpaso>>
    /\ UNCHANGED <<exterior, archivo, llamada, primera, entradas, n, k, T_fluido, T_aletas, campos_old,
                   T_sup_interpolada, converged, max_rate, t_actual,
                   historico, metricas, resultados, balance>>

\* 4.4: Dirichlet rows from the plate, at the head of every fin sub-step
AcoplarAletas ==
    /\ pc = "acople_aletas"
    /\ IF subpaso < n_subpasos_aletas(material)
       THEN LET res == aplicar_acoplamiento_placa_aletas(T_placa, T_aletas)
            IN IF res.error = "none"
               THEN /\ T_aletas' = res.valor
                    /\ k' = 0
                    /\ pc' = "aleta"
                    /\ UNCHANGED error
               ELSE /\ Abortar(res.error)
                    /\ UNCHANGED <<T_aletas, k>>
       ELSE /\ pc' = "convergencia"
            /\ UNCHANGED <<T_aletas, k, error>>
    /\ UNCHANGED <<exterior, archivo, llamada, primera, entradas, n, subpaso, T_fluido, T_placa, campos_old,
                   T_sup_interpolada, converged, max_rate, t_actual,
                   historico, metricas, resultados, balance>>

\* 4.4: fin k of the sub-step; after the third fin the sub-step is over
AvanzarAleta ==
    /\ pc = "aleta"
    /\ LET res == actualizar_aleta(T_aletas[k], material, k, dt_aletas_ajustado(material))
       IN IF res.error = "none"
          THEN /\ T_aletas' = [T_aletas EXCEPT ![k] = res.valor]
               /\ IF k < 2
                  THEN k' = k + 1 /\ UNCHANGED <<subpaso, pc>>
                  ELSE /\ subpaso' = subpaso + 1
                       /\ pc' = "acople_aletas"
                       /\ UNCHANGED k
               /\ UNCHANGED error
          ELSE /\ Abortar(res.error)
               /\ UNCHANGED <<T_aletas, k, subpaso>>
    /\ UNCHANGED <<exterior, archivo, llamada, primera, entradas, n, T_fluido, T_placa, campos_old,
                   T_sup_interpolada, converged, max_rate, t_actual,
                   historico, metricas, resultados, balance>>

\* 4.5: convergence of the step
VerificarConvergencia ==
    /\ pc = "convergencia"
    /\ LET res == verificar_convergencia(T_fluido, T_fluido_old, T_placa, T_placa_old,
                                         T_aletas, T_aletas_old, dt_placa, epsilon)
       IN /\ converged' = res.converged
          /\ max_rate' = res.max_rate
          /\ metricas' = [metricas EXCEPT
                             !.max_rate_historia = Append(@, res.max_rate)]
    /\ pc' = "balance"
    /\ UNCHANGED <<exterior, archivo, llamada, primera, entradas, n, subpaso, k, campos, campos_old, T_sup_interpolada,
                   t_actual, historico, error, resultados, balance>>

\* 4.6: energy balance.  The record is computed, then stamped with the
\* time read from the name t, which resolver_sistema never binds: the
\* statement raises NameError before the record is appended.
RegistrarBalance ==
    /\ pc = "balance"
    /\ IF calcular_balance /\ (n % guardar_cada = 0 \/ converged)
       THEN /\ balance' = Some(calcular_balance_energetico(
                               T_fluido, T_placa, T_aletas,
                               T_fluido_old, T_placa_old, T_aletas_old,
                               material, dt_placa))
            /\ Abortar("NameError")
       ELSE /\ pc' = "guardar"
            /\ UNCHANGED <<balance, error>>
    /\ UNCHANGED <<exterior, archivo, llamada, primera, entradas, n, subpaso, k, campos, campos_old, T_sup_interpolada,
                   converged, max_rate, t_actual, historico, metricas, resultados>>

\* the line written to the progress file: t_actual with two decimals [10 ms],
\* max_rate with three significant digits [mK/s], the mean temperatures of
\* fluid, plate and fins in tenths of a degree Celsius, and the percentage
\* (n + 1) / n_pasos_max * 100 with one decimal [tenths of a percent], then
\* the newline character that ends the line
Redondear(x, unidad) == (x + unidad \div 2) \div unidad
RECURSIVE Escala(_)
Escala(x) == IF x < 1000 THEN 1 ELSE 10 * Escala(x \div 10)
DosDecimalesExp(x) == Redondear(x, Escala(x)) * Escala(x)
MediaFluido(T) == SumaSeq(SeqDe(T, 0, Nx_fluido - 1)) \div Nx_fluido
MediaPlaca(T) ==
    SumaSeq([i \in 1 .. Nx_placa |-> SumaSeq(SeqDe(T[i - 1], 0, Ny_placa - 1))])
        \div (Nx_placa * Ny_placa)
MediaAleta(T) ==
    SumaSeq([m \in 1 .. Ntheta_aleta |-> SumaSeq(SeqDe(T[m - 1], 0, Nr_aleta - 1))])
        \div (Ntheta_aleta * Nr_aleta)
progreso_pct(i) == ((i + 1) * 100000) \div n_pasos_max
LineaDeProgreso ==
    <<Redondear(t_actual, 10000),
      DosDecimalesExp(max_rate),
      Redondear(MediaFluido(T_fluido) - 273150, 100),
      Redondear(MediaPlaca(T_placa) - 273150, 100),
      Redondear((MediaAleta(T_aletas[0]) + MediaAleta(T_aletas[1]) + MediaAleta(T_aletas[2])) \div 3
                    - 273150, 100),
      Redondear(progreso_pct(n), 100),
      10>>

\* 4.6: snapshot; with a progress file, open(progress_file, 'w') then
\* truncates the file, or raises, which the bare except swallows
GuardarDatos ==
    /\ pc = "guardar"
    /\ IF n % guardar_cada = 0 \/ converged \/ n = n_pasos_max - 1
       THEN /\ historico' = guardar_estado(historico, t_actual, T_fluido, T_placa, T_aletas)
            /\ IF progress_file # None
               THEN \/ progreso' = Some(<<>>) /\ pc' = "progreso"
                    \/ UNCHANGED progreso /\ pc' = "salida"
               ELSE UNCHANGED progreso /\ pc' = "salida"
       ELSE /\ UNCHANGED <<historico, progreso>>
            /\ pc' = "salida"
    /\ UNCHANGED <<progress_file, llamador, archivo, llamada, primera, entradas, n, subpaso, k,
                   campos, campos_old, T_sup_interpolada,
                   converged, max_rate, t_actual, metricas, error, resultados, balance>>

\* what a reader can find in the file while f.write is under way, or after
\* it failed: no field, some of the fields, or all with the last one cut
Parciales(linea) ==
    {SubSeq(linea, 1, j) : j \in {0, 2, 5}}
        \cup {[SubSeq(linea, 1, 6) EXCEPT ![6] = (linea[6] \div 100) * 10]}

\* the write raising instead of being swallowed
EscribirProgreso_sin_except ==
    /\ pc = "progreso"
    /\ \/ progreso' = Some(LineaDeProgreso) /\ pc' = "salida" /\ UNCHANGED error
       \/ \E c \in Parciales(LineaDeProgreso) :
             /\ Len(c) > Len(progreso[1])
             /\ progreso' = Some(c) /\ pc' = "progreso" /\ UNCHANGED error
       \/ UNCHANGED progreso /\ Abortar("OSError")
    /\ UNCHANGED <<progress_file, llamador, archivo, llamada, primera, entradas, n, subpaso, k,
                   campos, campos_old, T_sup_interpolada, converged, max_rate, t_actual,
                   historico, metricas, resultados, balance>>

\* f.write(...) and the end of the with block: the line reaches the file,
\* all at once or in parts, or an exception ends the attempt (except: pass)
EscribirProgreso ==
    /\ pc = "progreso"
    /\ \/ progreso' = Some(LineaDeProgreso) /\ pc' = "salida"
       \/ \E c \in Parciales(LineaDeProgreso) :
             /\ Len(c) > Len(progreso[1])
             /\ progreso' = Some(c) /\ pc' = "progreso"
       \/ UNCHANGED progreso /\ pc' = "salida"
    /\ UNCHANGED <<progress_file, llamador, archivo, llamada, primera, entradas, n, subpaso, k,
                   campos, campos_old, T_sup_interpolada, converged, max_rate, t_actual,
                   historico, metricas, error, resultados, balance>>

\* 4.9: leave the loop on convergence, else the next n
SalirSiConvergio ==
    /\ pc = "salida"
    /\ IF converged
       THEN pc' = "resultados" /\ UNCHANGED n
       ELSE pc' = "bucle" /\ n' = n + 1
    /\ UNCHANGED <<exterior, archivo, llamada, primera, entradas, subpaso, k, campos, campos_old, T_sup_interpolada,
                   converged, max_rate, t_actual, historico, metricas, error, resultados, balance>>

\* the dictionary with the time of the last step reported unconditionally
PrepararResultados_tiempo_siempre ==
    /\ pc = "resultados"
    /\ resultados' = Some(
          [tiempo |-> historico.tiempo,
           T_fluido |-> historico.T_fluido,
           T_placa |-> historico.T_placa,
           T_aletas |-> historico.T_aletas,
           convergencia |->
               [alcanzada |-> converged,
                t_convergencia |-> Some(t_actual)],
           metricas |-> metricas])
    /\ archivo' = Some(guardar_resultados(resultados'[1], material))
    /\ pc' = "fin"
    /\ UNCHANGED <<exterior, llamada, primera, entradas, n, subpaso, k, campos, campos_old, T_sup_interpolada,
                   converged, max_rate, t_actual, historico, metricas, error, balance>>

\* PASO 5-6: the dictionary, saved to disk and handed back
PrepararResultados ==
    /\ pc = "resultados"
    /\ resultados' = Some(
          [tiempo |-> historico.tiempo,
           T_fluido |-> historico.T_fluido,
           T_placa |-> historico.T_placa,
           T_aletas |-> historico.T_aletas,
           convergencia |->
               [alcanzada |-> converged,
                t_convergencia |-> IF converged THEN Some(t_actual) ELSE None],
           metricas |-> metricas])
    /\ archivo' = Some(guardar_resultados(resultados'[1], material))
    /\ pc' = "fin"
    /\ UNCHANGED <<exterior, llamada, primera, entradas, n, subpaso, k, campos, campos_old, T_sup_interpolada,
                   converged, max_rate, t_actual, historico, metricas, error, balance>>

Next ==
    \/ Configurar
    \/ IniciarPaso
    \/ AcoplarFluido
    \/ AvanzarFluido
    \/ AvanzarPlaca
    \/ AcoplarAletas
    \/ AvanzarAleta
    \/ VerificarConvergencia
    \/ RegistrarBalance
    \/ GuardarDatos
    \/ SalirSiConvergio
    \/ PrepararResultados

Spec == Init /\ [][Next]_vars

\* ------------------------------------------------------------------------
\* Properties
\* ------------------------------------------------------------------------
EtapasDelPaso ==
    {"acople_fluido", "fluido", "placa", "acople_aletas", "aleta", "convergencia"}

\* C1: within an outer iteration the stages follow one fixed order: plate
\* surface (of the previous plate field) onto the fluid grid, fluid, plate
\* (against the fluid just advanced), then n_subpasos_aletas times coupling
\* (from the plate just advanced) followed by fins 0, 1, 2, then the
\* convergence check; while iteration n is in one of these stages exactly n
\* convergence checks have finished, so no stage of iteration n+1 starts
\* before the convergence test of iteration n.
C1_OrdenDeEtapas ==
    /\ [](pc \in EtapasDelPaso => Len(metricas.max_rate_historia) = n)
    /\ [][/\ pc' = "acople_fluido" =>
                /\ pc = "bucle"
                /\ T_fluido_old' = T_fluido /\ T_placa_old' = T_placa
                /\ T_aletas_old' = T_aletas
          /\ (pc = "acople_fluido" /\ pc' # "abortado") =>
                /\ pc' = "fluido"
                /\ T_sup_interpolada' = interpolar_temperatura_para_fluido(
                       [i \in IdxPlacaX |-> T_placa_old[i][0]])
                /\ UNCHANGED campos
          /\ (pc = "fluido" /\ pc' # "abortado") =>
                /\ pc' = "placa"
                /\ T_fluido' = FluidoNuevo(T_fluido_old, T_sup_interpolada, dt_placa)
                /\ T_placa' = T_placa_old /\ T_aletas' = T_aletas_old
          /\ (pc = "placa" /\ pc' # "abortado") =>
                /\ pc' = "acople_aletas" /\ subpaso' = 0
                /\ T_placa' = PlacaNueva(T_placa_old, interpolar_fluido_a_placa(T_fluido),
                                         material, dt_placa)
                /\ T_fluido' = T_fluido /\ T_aletas' = T_aletas_old
          /\ (pc = "acople_aletas" /\ pc' # "abortado") =>
                IF subpaso < n_subpasos_aletas(material)
                THEN /\ pc' = "aleta" /\ k' = 0
                     /\ T_aletas' = aplicar_acoplamiento_placa_aletas(T_placa, T_aletas).valor
                     /\ T_placa' = T_placa /\ T_fluido' = T_fluido
                ELSE pc' = "convergencia" /\ UNCHANGED campos
          /\ (pc = "aleta" /\ pc' # "abortado") =>
                /\ T_aletas' = [T_aletas EXCEPT ![k] =
                       actualizar_aleta(T_aletas[k], material, k,
                                        dt_aletas_ajustado(material)).valor]
                /\ T_placa' = T_placa /\ T_fluido' = T_fluido
                /\ IF k < 2
                   THEN pc' = "aleta" /\ k' = k + 1 /\ subpaso' = subpaso
                   ELSE pc' = "acople_aletas" /\ subpaso' = subpaso + 1
          /\ pc = "convergencia" =>
                /\ subpaso = n_subpasos_aletas(material)
                /\ pc' = "balance"
                /\ metricas'.max_rate_historia = Append(metricas.max_rate_historia, max_rate')
                /\ UNCHANGED campos
         ]_vars

\* C1 witness: the third iteration has run all its stages and every field moved
C1_Testigo ==
    /\ pc = "balance" /\ n = 2
    /\ T_fluido # T_fluido_old /\ T_placa # T_placa_old /\ T_aletas # T_aletas_old

\* the rates of the convergence checks finished so far, oldest first
tasas == metricas.max_rate_historia
Ultimo(q) == q[Len(q)]
Detenido == pc \in {"fin", "abortado"}

\* C2: a run that has stopped, other than by an assertion of a solver, has
\* returned; it ran at most floor(t_max / dt_placa) iterations; it returned
\* either right after the first iteration whose maximum rate was below
\* epsilon or, no iteration having converged, after the last allowed
\* iteration; no iteration follows one that converged.
C2_Terminacion ==
    /\ Len(tasas) <= n_pasos_max
    /\ \A i \in 1 .. Len(tasas) : tasas[i] < epsilon => i = Len(tasas)
    /\ (Detenido /\ error # "AssertionError") =>
          /\ pc = "fin"
          /\ \/ Len(tasas) > 0 /\ Ultimo(tasas) < epsilon
             \/ Len(tasas) = n_pasos_max /\ \A i \in 1 .. Len(tasas) : tasas[i] >= epsilon

Terminadas ==
    IF pc \in {"balance", "guardar"} THEN Len(tasas) - 1 ELSE Len(tasas)
\* iteration i (from 0) has to leave a snapshot
DebeGuardar(i) ==
    i % guardar_cada = 0 \/ tasas[i + 1] < epsilon \/ i = n_pasos_max - 1
RECURSIVE TiemposEsperados(_)
TiemposEsperados(c) ==
    IF c = 0 THEN <<0>>
    ELSE IF DebeGuardar(c - 1)
         THEN Append(TiemposEsperados(c - 1), c * dt_placa)
         ELSE TiemposEsperados(c - 1)

\* C4: besides the snapshot of t = 0, the history holds one snapshot for
\* each finished iteration n with n mod guardar_cada = 0, or converged, or
\* n the last allowed iteration, and no other; so the iteration that ends
\* the run always leaves one, and the last snapshot of a returned history
\* is the final state.
C4_Instantaneas ==
    /\ (pc # "inicio" /\ error # "AssertionError") =>
          historico.tiempo = TiemposEsperados(Terminadas)
    /\ pc = "fin" =>
          /\ Ultimo(resultados[1].tiempo) = Len(tasas) * dt_placa
          /\ Ultimo(resultados[1].T_fluido) = T_fluido
          /\ Ultimo(resultados[1].T_placa) = T_placa
          /\ Ultimo(resultados[1].T_aletas) = T_aletas

\* ------------------------------------------------------------------------
\* Two runs on the same inputs, the second with calcular_balance flipped
\* ------------------------------------------------------------------------
\* what a caller can observe of a run that has stopped
Observado ==
    [devuelto |-> pc = "fin",
     error |-> error,
     tiempo |-> historico.tiempo,
     T_fluido |-> historico.T_fluido,
     T_placa |-> historico.T_placa,
     T_aletas |-> historico.T_aletas,
     max_rate_historia |-> metricas.max_rate_historia,
     alcanzada |-> converged,
     t_convergencia |-> IF converged THEN Some(t_actual) ELSE None]

\* the caller keeps what the first run left and calls resolver_sistema again
OtraCorrida ==
    /\ Detenido
    /\ primera = None
    /\ primera' = Some(Observado)
    /\ calcular_balance' = ~calcular_balance
    /\ UNCHANGED <<material, t_max, epsilon, guardar_cada, llamada, archivo, exterior>>
    /\ pc' = "inicio"
    /\ n' = 0 /\ subpaso' = 0 /\ k' = 0
    /\ T_fluido' = inicializar_fluido
    /\ T_placa' = inicializar_placa
    /\ T_aletas' = [kk \in Aletas |-> inicializar_aleta]
    /\ T_fluido_old' = inicializar_fluido
    /\ T_placa_old' = inicializar_placa
    /\ T_aletas_old' = [kk \in Aletas |-> inicializar_aleta]
    /\ T_sup_interpolada' = [i \in IdxFluido |-> T_inicial]
    /\ converged' = FALSE
    /\ max_rate' = 0
    /\ t_actual' = 0
    /\ historico' = [tiempo |-> <<>>, T_fluido |-> <<>>, T_placa |-> <<>>, T_aletas |-> <<>>]
    /\ metricas' = [balance |-> <<>>, max_rate_historia |-> <<>>]
    /\ balance' = None
    /\ error' = "none"
    /\ resultados' = None

NextDosCorridas ==
    \/ Next
    \/ OtraCorrida

SpecDosCorridas == Init /\ [][NextDosCorridas]_vars

\* C5: two runs on the same parameters, t_max, epsilon and cadence, one with
\* calcular_balance and one without, leave the same snapshots (times and
\* fields), the same max-rate history and the same convergence outcome.
C5_BalanceSinEfecto ==
    (Detenido /\ primera # None) =>
        /\ primera[1].devuelto = Observado.devuelto
        /\ primera[1].tiempo = Observado.tiempo
        /\ primera[1].T_fluido = Observado.T_fluido
        /\ primera[1].T_placa = Observado.T_placa
        /\ primera[1].T_aletas = Observado.T_aletas
        /\ primera[1].max_rate_historia = Observado.max_rate_historia
        /\ primera[1].alcanzada = Observado.alcanzada
        /\ primera[1].t_convergencia = Observado.t_convergencia

CamposBalance == {"Q_in", "Q_out", "dE_dt", "error_relativo", "tiempo"}

\* C6: every record of metricas['balance'] carries Q_in, Q_out, dE_dt,
\* error_relativo and the time of the iteration that produced it, and a
\* balance that was computed has been recorded with the run going on: the
\* balance stage never aborts the run.
C6_BalanceRegistrado ==
    /\ \A i \in 1 .. Len(metricas.balance) :
          /\ DOMAIN metricas.balance[i] = CamposBalance
          /\ metricas.balance[i].tiempo \in {c * dt_placa : c \in 1 .. Len(tasas)}
    /\ balance # None =>
          /\ pc = "abortado" => error = "AssertionError"
          /\ \E i \in 1 .. Len(metricas.balance) :
                \A c \in CamposBalance \ {"tiempo"} :
                    metricas.balance[i][c] = balance[1][c]

\* C7: with the balance enabled there is one record for every snapshot
\* after t = 0, stamped with the same time: at every cadence iteration, at
\* the iteration that converges and at the last allowed iteration.
C7_BalanceEnCadaInstantanea ==
    (calcular_balance /\ pc \in {"bucle", "resultados", "fin", "abortado"}
        /\ error # "AssertionError") =>
        /\ Len(metricas.balance) = Len(TiemposEsperados(Len(tasas))) - 1
        /\ \A i \in 1 .. Len(metricas.balance) :
              metricas.balance[i].tiempo = TiemposEsperados(Len(tasas))[i + 1]

\* rows 0 and Ntheta-1 of every fin hold the plate values under them
FilasDirichlet(Tp, Ta) ==
    \A kk \in Aletas : \A j \in IdxR :
        /\ Ta[kk][0][j] = PlacaEnAleta(Tp, kk, "0", j).valor
        /\ Ta[kk][Ntheta_aleta - 1][j] = PlacaEnAleta(Tp, kk, "pi", j).valor

\* C8: the Dirichlet values of the coupler are the last thing written to
\* rows 0 and Ntheta-1 in a fin sub-step: when a sub-step is over, and in
\* every snapshot after t = 0, those rows hold the values interpolated from
\* the plate.
C8_DirichletAlFinalDelSubpaso ==
    /\ (pc = "acople_aletas" /\ subpaso >= 1) => FilasDirichlet(T_placa, T_aletas)
    /\ \A i \in 2 .. Len(historico.tiempo) :
          FilasDirichlet(historico.T_placa[i], historico.T_aletas[i])

\* ------------------------------------------------------------------------
\* Single calls of the functions of the package on given fields
\* ------------------------------------------------------------------------
\* plate fields: a fixed gradient below a top face chosen node by node, and
\* one field outside the physical range
PlacasDePrueba ==
    {[i \in IdxPlacaX |-> [j \in IdxPlacaY |->
          IF j = Ny_placa - 1 THEN tope[i] ELSE 300000 + 1000 * j]] :
        tope \in [IdxPlacaX -> {296150, 310000}]}
    \cup {[i \in IdxPlacaX |-> [j \in IdxPlacaY |-> 520000]]}

\* fin fields: uniform centre, first and outer rings with a radial and an
\* angular slope; one base outside the physical range; one with a cold
\* centre inside hot rings
AletaDePrueba(base, a, b) ==
    [m \in IdxTheta |-> [j \in IdxR |-> IF j = 0 THEN base ELSE base + b * j + a * m]]
AletasDePrueba ==
    {[kk \in Aletas |-> AletaDePrueba(base + 1000 * kk, a, b)] :
        base \in {296150, 320000, 510000}, a \in {0, 500}, b \in {0, 300}}
    \cup {[kk \in Aletas |-> [m \in IdxTheta |-> [j \in IdxR |->
                IF j = 0 THEN 210000 ELSE 350000]]]}

\* fields uniform at a temperature far below and far above the ambient one
PlacasUniformesDePrueba ==
    {[i \in IdxPlacaX |-> [j \in IdxPlacaY |-> T0]] : T0 \in {246150, 346150}}
AletasUniformesDePrueba ==
    {[kk \in Aletas |-> [m \in IdxTheta |-> [j \in IdxR |-> T0]]] :
        T0 \in {206150, 496150}}

\* fluid fields: the initial one, one whose inlet node is not at T_f_in, a
\* ramp, and one just below the upper limit of the range
FluidosDePrueba ==
    {inicializar_fluido,
     [i \in IdxFluido |-> T_inicial],
     [i \in IdxFluido |-> 353150 - 5000 * i],
     [i \in IdxFluido |-> 399900]}

\* plate surfaces seen by the fluid: cold, a ramp, and a hot one
SuperficiesDePrueba ==
    {[i \in IdxFluido |-> T_inicial],
     [i \in IdxFluido |-> T_inicial + 3000 * i],
     [i \in IdxFluido |-> 499000]}

\* step sizes handed to a solver: the one resolver_sistema uses and one
\* beyond the solver's stability limit
DtFluidoDePrueba(mat) == {params_dt(mat), 2 * params_dt(mat)}
DtPlacaDePrueba(mat) == {params_dt(mat), 2 * dt_max_fourier(mat)}
DtAletaDePrueba(mat) == {dt_aletas_ajustado(mat), 2 * dt_seguro(mat)}

\* query points of the plate interpolation: inside, on the border and
\* beyond each side of [0, L_x] x [0, e_base]
PuntosDePrueba ==
    {<<x, y>> : x \in {0 - dx_placa, 0, dx_placa + 1, L_x, L_x + 1},
                y \in {0 - dy_placa, 0, dy_placa + 1, e_base, e_base + 1}}

\* new fields for the convergence check: the initial fields with one node
\* of a domain moved by a given amount [mK]
CambiosDePrueba == {0, 4999, 5000, 15001}
FluidosCambiados ==
    {[inicializar_fluido EXCEPT ![Nx_fluido - 1] = @ - d] : d \in CambiosDePrueba}
PlacasCambiadas ==
    {[inicializar_placa EXCEPT ![1][1] = @ + d] : d \in CambiosDePrueba}
AletasCambiadas ==
    {[kk \in Aletas |->
        IF kk = 0 THEN [inicializar_aleta EXCEPT ![1][1] = @ + d0]
        ELSE IF kk = 2
        THEN [inicializar_aleta EXCEPT ![Ntheta_aleta - 1][Nr_aleta - 1] = @ - d2]
        ELSE inicializar_aleta] :
        d0 \in CambiosDePrueba, d2 \in CambiosDePrueba}
\* steps for the check: the plate step, and one that makes 5 K of change a
\* rate of exactly 0.1 K/s
DtConvergenciaDePrueba(mat) == {params_dt(mat), 50000}

LlamadasConDt == {"llamar_fluido", "llamar_placa", "llamar_aleta", "llamar_convergencia"}
Llamadas == {"llamar_acoplamiento", "llamar_interpolacion"} \cup LlamadasConDt

InitFunciones ==
    /\ t_max = 0 /\ guardar_cada = 1 /\ calcular_balance = FALSE
    /\ primera = None
    /\ retorno = None
    /\ archivo = None
    /\ progress_file = None /\ progreso = None /\ llamador = SinLlamador
    /\ pc \in Llamadas
    /\ punto \in (IF pc = "llamar_interpolacion" THEN PuntosDePrueba ELSE {<<0, 0>>})
    /\ material \in (IF pc \in {"llamar_acoplamiento", "llamar_convergencia"}
                     THEN {"Al"} ELSE Materiales)
    /\ epsilon \in (IF pc = "llamar_convergencia" THEN Epsilones ELSE {1})
    /\ dt \in (CASE pc = "llamar_fluido" -> DtFluidoDePrueba(material)
                 [] pc = "llamar_placa" -> DtPlacaDePrueba(material)
                 [] pc = "llamar_aleta" -> DtAletaDePrueba(material)
                 [] pc = "llamar_convergencia" -> DtConvergenciaDePrueba(material)
                 [] OTHER -> {params_dt(material)})
    /\ k \in (IF pc = "llamar_aleta" THEN Aletas ELSE {0})
    /\ T_fluido \in (IF pc \in {"llamar_fluido", "llamar_placa"}
                     THEN FluidosDePrueba
                     ELSE IF pc = "llamar_convergencia"
                     THEN FluidosCambiados
                     ELSE {inicializar_fluido})
    /\ T_placa \in (IF pc \in {"llamar_acoplamiento", "llamar_interpolacion"}
                    THEN PlacasDePrueba
                    ELSE IF pc = "llamar_placa"
                    THEN PlacasDePrueba \cup {inicializar_placa}
                            \cup PlacasUniformesDePrueba
                    ELSE IF pc = "llamar_convergencia"
                    THEN PlacasCambiadas
                    ELSE {inicializar_placa})
    /\ T_aletas \in (IF pc = "llamar_acoplamiento"
                     THEN AletasDePrueba
                     ELSE IF pc = "llamar_aleta"
                     THEN AletasDePrueba \cup AletasUniformesDePrueba
                     ELSE IF pc = "llamar_convergencia"
                     THEN AletasCambiadas
                     ELSE {[kk \in Aletas |-> inicializar_aleta]})
    /\ T_sup_interpolada \in (IF pc = "llamar_fluido"
                              THEN SuperficiesDePrueba
                              ELSE {[i \in IdxFluido |-> T_inicial]})
    /\ n = 0 /\ subpaso = 0
    /\ T_fluido_old = (IF pc = "llamar_convergencia" THEN inicializar_fluido ELSE T_fluido)
    /\ T_placa_old = (IF pc = "llamar_convergencia" THEN inicializar_placa ELSE T_placa)
    /\ T_aletas_old = (IF pc = "llamar_convergencia"
                       THEN [kk \in Aletas |-> inicializar_aleta] ELSE T_aletas)
    /\ converged = FALSE
    /\ max_rate = 0
    /\ t_actual = 0
    /\ historico = [tiempo |-> <<>>, T_fluido |-> <<>>, T_placa |-> <<>>, T_aletas |-> <<>>]
    /\ metricas = [balance |-> <<>>, max_rate_historia |-> <<>>]
    /\ balance = None
    /\ error = "none"
    /\ resultados = None

\* what a call gave back: the function, and its value or its exception
Retorno(funcion, res) ==
    Some([funcion |-> funcion, error |-> res.error, valor |-> res.valor])

\* T_aletas = aplicar_acoplamiento_placa_aletas(T_placa, T_aletas, ...)
LlamarAcoplamiento ==
    /\ pc = "llamar_acoplamiento"
    /\ LET res == aplicar_acoplamiento_placa_aletas(T_placa, T_aletas)
       IN IF res.error = "none"
          THEN /\ T_aletas' = res.valor
               /\ pc' = "devuelto_acoplamiento"
               /\ UNCHANGED error
          ELSE /\ Abortar(res.error)
               /\ UNCHANGED T_aletas
    /\ UNCHANGED <<exterior, archivo, llamada, primera, entradas, n, subpaso, k, T_fluido, T_placa, campos_old,
                   T_sup_interpolada, converged, max_rate, t_actual,
                   historico, metricas, balance, resultados>>

\* T_aletas[k] = actualizar_aleta(T_aletas[k], ..., k, dt)
LlamarAleta ==
    /\ pc = "llamar_aleta"
    /\ LET res == actualizar_aleta(T_aletas[k], material, k, dt)
       IN /\ retorno' = Retorno("actualizar_aleta", res)
          /\ IF res.error = "none"
             THEN /\ T_aletas' = [T_aletas EXCEPT ![k] = res.valor]
                  /\ pc' = "devuelto_aleta"
                  /\ UNCHANGED error
             ELSE /\ Abortar(res.error)
                  /\ UNCHANGED T_aletas
    /\ UNCHANGED <<exterior, archivo, dt, punto, primera, entradas, n, subpaso, k, T_fluido, T_placa, campos_old,
                   T_sup_interpolada, converged, max_rate, t_actual,
                   historico, metricas, balance, resultados>>

\* T_fluido_new = actualizar_fluido(T_fluido, T_s, ..., dt): the argument
\* array is read, the result is a new array
LlamarFluido ==
    /\ pc = "llamar_fluido"
    /\ LET res == actualizar_fluido(T_fluido, T_sup_interpolada, dt)
       IN /\ retorno' = Retorno("actualizar_fluido", res)
          /\ IF res.error = "none"
             THEN pc' = "devuelto_fluido" /\ UNCHANGED error
             ELSE Abortar(res.error)
    /\ UNCHANGED <<exterior, archivo, dt, punto, primera, entradas, n, subpaso, k, campos, campos_old,
                   T_sup_interpolada, converged, max_rate, t_actual,
                   historico, metricas, balance, resultados>>

\* T_placa_new = actualizar_placa(T_placa, T_fluido, ..., dt)
LlamarPlaca ==
    /\ pc = "llamar_placa"
    /\ LET res == actualizar_placa(T_placa, T_fluido, material, dt)
       IN /\ retorno' = Retorno("actualizar_placa", res)
          /\ IF res.error = "none"
             THEN pc' = "devuelto_placa" /\ UNCHANGED error
             ELSE Abortar(res.error)
    /\ UNCHANGED <<exterior, archivo, dt, punto, primera, entradas, n, subpaso, k, campos, campos_old,
                   T_sup_interpolada, converged, max_rate, t_actual,
                   historico, metricas, balance, resultados>>

\* interpolar_temperatura_placa_2d(T_placa, x_objetivo, y_objetivo, ...) at
\* one query point
LlamarInterpolacion ==
    /\ pc = "llamar_interpolacion"
    /\ LET res == interpolar_temperatura_placa_2d(T_placa, punto)
       IN /\ retorno' = Retorno("interpolar_temperatura_placa_2d", res)
          /\ IF res.error = "none"
             THEN pc' = "devuelto_interpolacion" /\ UNCHANGED error
             ELSE Abortar(res.error)
    /\ UNCHANGED <<exterior, archivo, dt, punto, primera, entradas, n, subpaso, k, campos, campos_old,
                   T_sup_interpolada, converged, max_rate, t_actual,
                   historico, metricas, balance, resultados>>

\* converged, max_rate = verificar_convergencia(T_old, T_new, dt, epsilon)
LlamarConvergencia ==
    /\ pc = "llamar_convergencia"
    /\ LET res == verificar_convergencia(T_fluido, T_fluido_old, T_placa, T_placa_old,
                                         T_aletas, T_aletas_old, dt, epsilon)
       IN /\ converged' = res.converged
          /\ max_rate' = res.max_rate
    /\ pc' = "devuelto_convergencia"
    /\ UNCHANGED <<exterior, archivo, llamada, primera, entradas, n, subpaso, k, campos, campos_old,
                   T_sup_interpolada, t_actual,
                   historico, metricas, balance, error, resultados>>

\* for n in range(num_pasos): T_placa = actualizar_placa(T_placa, ...):
\* the name is bound to the returned array and the next call is made
SiguientePasoPlaca ==
    /\ pc = "devuelto_placa"
    /\ n + 1 < MaxPasos
    /\ n' = n + 1
    /\ T_placa_old' = T_placa
    /\ T_placa' = retorno[1].valor
    /\ retorno' = None
    /\ pc' = "llamar_placa"
    /\ UNCHANGED <<exterior, archivo, dt, punto, primera, entradas, subpaso, k, T_fluido, T_aletas,
                   T_fluido_old, T_aletas_old,
                   T_sup_interpolada, converged, max_rate, t_actual,
                   historico, metricas, balance, error, resultados>>

NextFunciones ==
    \/ LlamarAcoplamiento
    \/ LlamarAleta
    \/ LlamarFluido
    \/ LlamarPlaca
    \/ SiguientePasoPlaca
    \/ LlamarInterpolacion
    \/ LlamarConvergencia

SpecFunciones == InitFunciones /\ [][NextFunciones]_vars

\* runs of resolver_sistema and single calls of the functions, together
InitPaquete == Init \/ InitFunciones
NextPaquete == Next \/ NextFunciones
SpecPaquete == InitPaquete /\ [][NextPaquete]_vars

C10_CentroPromedioAngular ==
    pc = "devuelto_aleta" =>
        LET T_new == T_aletas[k]
            T_old == T_aletas_old[k]
            promedio ==
                Div(SumaSeq([m \in 1 .. Ntheta_aleta |-> T_old[m - 1][1]]), Ntheta_aleta)
            esperado ==
                T_old[0][0]
                + MulPpm(2 * Fo_r(material, dt_aletas_ajustado(material)),
                         promedio - T_old[0][0])
        IN /\ \A m \in IdxTheta : T_new[m][0] = T_new[0][0]
           /\ Abs(T_new[0][0] - esperado) <= 1

\* ------------------------------------------------------------------------
\* C11: the number N of fin sub-steps of an outer iteration is the ceiling
\* of dt_placa / dt_aletas, the step handed to the fin solver is dt_placa / N
\* (N of them make up one plate step, to the resolution of one microsecond
\* per sub-step) and is no larger than the stability-limited fin step; when
\* the fin loop of an iteration is left, every fin has been advanced N times,
\* and a sub-step is counted only when the third fin has been advanced.
\* ------------------------------------------------------------------------
DespuesDeAletas == {"convergencia", "balance", "guardar", "salida"}

LimitesDeEstabilidad(mat) ==
    /\ Fo_x(mat, params_dt(mat)) + Fo_y(mat, params_dt(mat)) < 500000
    /\ CFL(params_dt(mat)) < 1000000
    /\ Fo_r(mat, dt_aletas_ajustado(mat))
         + Fo_theta_efectivo(mat, dt_aletas_ajustado(mat), r_array[1]) < 500000

NingunPasoEjecutado ==
    /\ pc \in {"inicio", "abortado"}
    /\ n = 0 /\ t_actual = 0
    /\ T_fluido = inicializar_fluido
    /\ T_placa = inicializar_placa
    /\ T_aletas = [kk \in Aletas |-> inicializar_aleta]
    /\ metricas.max_rate_historia = <<>>
    /\ resultados = None

PasoInestable(funcion) ==
    CASE funcion = "actualizar_fluido" -> ~(CFL(dt) < 1000000)
      [] funcion = "actualizar_placa" ->
            ~(Fo_x(material, dt) + Fo_y(material, dt) < 500000)
      [] funcion = "actualizar_aleta" ->
            ~(Fo_r(material, dt) + Fo_theta_efectivo(material, dt, r_array[1]) < 500000)
      [] OTHER -> FALSE

C13_PrecondicionDeEstabilidad ==
    /\ [](retorno # None =>
            /\ PasoInestable(retorno[1].funcion) =>
                  /\ retorno[1].error = "AssertionError"
                  /\ retorno[1].valor = <<>>
                  /\ pc = "abortado"
                  /\ campos = campos_old
            /\ retorno[1].error = "none" => ~PasoInestable(retorno[1].funcion))
    /\ [][pc # "abortado"]_vars

C13_Testigo ==
    /\ retorno # None
    /\ retorno[1].funcion = "actualizar_placa"
    /\ PasoInestable("actualizar_placa")
    /\ RangoPlaca(T_placa)
    /\ pc = "abortado" /\ error = "AssertionError"

\* ------------------------------------------------------------------------
\* C14: in every state of a run that has not aborted, every node of the
\* fluid and of the plate is strictly between 200 K and 400 K and every fin
\* node is between 200 K and 500 K, in the fields and in the snapshots, and
\* one call of the fin solver moves no node by 50 K or more.  A solver call
\* whose new field would leave the range, or whose fin field would jump by
\* 50 K or more, raises an error, returns nothing and is the last thing
\* done; a call that returns hands back the computed field unaltered
\* (nothing is clamped).
\* ------------------------------------------------------------------------
EnCorrida ==
    pc \in {"inicio", "bucle", "acople_fluido", "fluido", "placa", "acople_aletas",
            "aleta", "convergencia", "balance", "guardar", "salida", "resultados", "fin"}

\* the field actualizar_aleta computes, before its checks of the result
AletaNueva(T_aleta_old, mat, paso) ==
    LET T_1 == actualizar_interior_aleta(T_aleta_old, mat, paso)
        T_2 == [m \in IdxTheta |->
                  [T_1[m] EXCEPT ![0] = T_aleta_old[m][0]
                        + MulPpm(2 * Fo_r(mat, paso), T_aleta_old[m][1] - T_aleta_old[m][0])]]
        T_3 == aplicar_bc_superficie_aleta(T_2, T_aleta_old, mat, paso)
    IN aplicar_bc_theta_aleta(T_3)

CamposEnRango(Tf, Tp, Ta) ==
    /\ RangoFluido(Tf)
    /\ RangoPlaca(Tp)
    /\ \A kk \in Aletas : RangoAleta(Ta[kk])

LlamadaComprobada ==
    LET r == retorno[1]
        estable == ~PasoInestable(r.funcion)
    IN CASE r.funcion = "actualizar_fluido" ->
              LET nuevo == FluidoNuevo(T_fluido, T_sup_interpolada, dt)
              IN /\ r.error = "none" => r.valor = nuevo /\ RangoFluido(r.valor)
                 /\ (estable /\ ~RangoFluido(nuevo)) =>
                        r.error = "AssertionError" /\ r.valor = <<>> /\ pc = "abortado"
         [] r.funcion = "actualizar_placa" ->
              LET nuevo == PlacaNueva(T_placa, interpolar_fluido_a_placa(T_fluido),
                                      material, dt)
              IN /\ r.error = "none" => r.valor = nuevo /\ RangoPlaca(r.valor)
                 /\ (estable /\ ~RangoPlaca(nuevo)) =>
                        r.error = "AssertionError" /\ r.valor = <<>> /\ pc = "abortado"
         [] r.funcion = "actualizar_aleta" ->
              LET viejo == T_aletas_old[k]
                  nuevo == AletaNueva(viejo, material, dt)
              IN /\ r.error = "none" =>
                        /\ r.valor = nuevo
                        /\ RangoAleta(r.valor)
                        /\ MaxAbsDiffAleta(r.valor, viejo) < 50000
                 /\ (estable /\ RangoAleta(viejo)
                        /\ (~RangoAleta(nuevo) \/ MaxAbsDiffAleta(nuevo, viejo) >= 50000)) =>
                        r.error = "AssertionError" /\ r.valor = <<>> /\ pc = "abortado"
         [] OTHER -> TRUE

EtapasConCopias ==
    {"acople_fluido", "fluido", "placa", "acople_aletas", "aleta", "convergencia", "balance"}

CopiasIntactas ==
    /\ (pc = "bucle" /\ pc' = "acople_fluido") => campos_old' = campos /\ campos' = campos
    /\ pc \in EtapasConCopias => campos_old' = campos_old
    /\ pc = "fluido" => UNCHANGED <<T_placa, T_aletas, T_sup_interpolada>>
    /\ pc = "placa" => UNCHANGED <<T_fluido, T_aletas>>
    /\ pc = "acople_aletas" => UNCHANGED <<T_fluido, T_placa>>
    /\ pc = "aleta" =>
          /\ UNCHANGED <<T_fluido, T_placa>>
          /\ \A kk \in Aletas \ {k} : T_aletas'[kk] = T_aletas[kk]

ArgumentosIntactos ==
    /\ pc = "llamar_fluido" => UNCHANGED <<T_fluido, T_sup_interpolada>>
    /\ pc = "llamar_placa" => UNCHANGED <<T_placa, T_fluido>>
    /\ pc = "llamar_aleta" =>
          /\ UNCHANGED T_aletas_old
          /\ \A kk \in Aletas \ {k} : T_aletas'[kk] = T_aletas[kk]
    /\ pc = "llamar_acoplamiento" => UNCHANGED <<T_aletas_old, T_placa>>
    /\ (pc \in {"llamar_fluido", "llamar_placa"} /\ pc' # "abortado") =>
          /\ retorno' # None
          /\ retorno'[1].valor # <<>>

FueraDeLaPlaca(p) ==
    \/ p[1] < 0 \/ p[1] > L_x
    \/ p[2] < 0 \/ p[2] > e_base

PuntosDelAcoplamiento ==
    {mapear_coordenadas_placa_a_aleta(r_array[j], theta, x_aletas(kk), e_base) :
        j \in IdxR, theta \in {"0", "pi"}, kk \in Aletas}

CargarResultados ==
    /\ pc = "fin"
    /\ archivo # None
    /\ retorno' = Retorno("cargar_resultados", Ok(cargar_resultados(archivo[1])))
    /\ pc' = "cargado"
    /\ UNCHANGED <<exterior, archivo, dt, punto, primera, entradas, n, subpaso, k, campos, campos_old,
                   T_sup_interpolada, converged, max_rate, t_actual,
                   historico, metricas, balance, error, resultados>>

NextGuardarCargar ==
    \/ Next
    \/ CargarResultados

SpecGuardarCargar == Init /\ [][NextGuardarCargar]_vars

\* ------------------------------------------------------------------------
\* C17: what cargar_resultados reads from the file guardar_resultados wrote
\* is the bundle that was saved: the same snapshot times, the same fields of
\* every domain at every snapshot, the same convergence outcome (alcanzada,
\* and t_convergencia, absent when convergence was not reached) and the
\* same energy-balance history.
\* ------------------------------------------------------------------------
C17_IdaYVuelta ==
    pc = "cargado" =>
        LET original == resultados[1]
            cargado == retorno[1].valor
        IN /\ cargado.tiempo = original.tiempo
           /\ cargado.T_fluido = original.T_fluido
           /\ cargado.T_placa = original.T_placa
           /\ cargado.T_aletas = original.T_aletas
           /\ cargado.convergencia.alcanzada = original.convergencia.alcanzada
           /\ cargado.convergencia.t_convergencia = original.convergencia.t_convergencia
           /\ cargado.metricas.balance = original.metricas.balance

\* ------------------------------------------------------------------------
\* C18: the max_rate that verificar_convergencia returns is the largest of
\* |T_new - T_old| / dt over every node of the fluid, of the plate and of
\* each of the three fins (it is the rate of some node and no node has a
\* larger one), and converged is true exactly when max_rate < epsilon: one
\* node of one domain with a rate of epsilon or more prevents convergence.
\* ------------------------------------------------------------------------
TasasPorNodo ==
    {Tasa(Abs(T_fluido[i] - T_fluido_old[i]), dt) : i \in IdxFluido}
    \cup {Tasa(Abs(T_placa[i][j] - T_placa_old[i][j]), dt) : i \in IdxPlacaX, j \in IdxPlacaY}
    \cup UNION {{Tasa(Abs(T_aletas[kk][m][j] - T_aletas_old[kk][m][j]), dt) :
                    m \in IdxTheta, j \in IdxR} : kk \in Aletas}

C18_ConvergenciaGlobal ==
    pc \in {"devuelto_convergencia", "balance"} =>
        /\ max_rate \in TasasPorNodo
        /\ \A r \in TasasPorNodo : r <= max_rate
        /\ converged <=> max_rate < epsilon
        /\ (\E r \in TasasPorNodo : r >= epsilon) => ~converged

C18_Testigo ==
    /\ pc = "devuelto_convergencia"
    /\ T_fluido = T_fluido_old /\ T_placa = T_placa_old
    /\ T_aletas[0] = T_aletas_old[0] /\ T_aletas[1] = T_aletas_old[1]
    /\ T_aletas[2] # T_aletas_old[2]
    /\ max_rate = epsilon
    /\ ~converged

\* ------------------------------------------------------------------------
\* C19: equilibrium is a fixed point of actualizar_placa.  With the plate
\* uniform at T0, the fluid uniform at T0 and T_inf = T0, the call returns
\* a field equal to its input at every node, edges and corners included,
\* and so does every later call on the returned field.
\* ------------------------------------------------------------------------
PlacaUniforme(T0) == [i \in IdxPlacaX |-> [j \in IdxPlacaY |-> T0]]
FluidoUniforme(T0) == [i \in IdxFluido |-> T0]

EnEquilibrio ==
    /\ T_placa = PlacaUniforme(T_inf)
    /\ T_fluido = FluidoUniforme(T_inf)

C19_EquilibrioPuntoFijo ==
    /\ []((pc = "devuelto_placa" /\ EnEquilibrio) => retorno[1].valor = PlacaUniforme(T_inf))
    /\ [][(pc = "llamar_placa" /\ EnEquilibrio /\ ~PasoInestable("actualizar_placa")) =>
            /\ pc' = "devuelto_placa"
            /\ retorno'[1].valor = T_placa
            /\ \A i \in IdxPlacaX : \A j \in IdxPlacaY : retorno'[1].valor[i][j] = T_inf]_vars
    /\ [][(pc = "devuelto_placa" /\ pc' = "llamar_placa" /\ EnEquilibrio) => EnEquilibrio']_vars

C19_Testigo ==
    /\ pc = "devuelto_placa"
    /\ n = MaxPasos - 1
    /\ EnEquilibrio
    /\ T_placa_old = PlacaUniforme(T_inf)
    /\ retorno[1].valor = PlacaUniforme(T_inf)

\* ------------------------------------------------------------------------
\* C20: whatever field actualizar_fluido is given, in the field it returns
\* node 0 is at the inlet temperature T_f_in and the last node has the new
\* value of node Nx-2; and in every state of a run, and in every snapshot,
\* the inlet node of the fluid is at T_f_in.
\* ------------------------------------------------------------------------
FronterasDelFluido(T) ==
    /\ T[0] = T_f_in
    /\ T[Nx_fluido - 1] = T[Nx_fluido - 2]

C20_FronterasDelFluido ==
    /\ (/\ retorno # None
        /\ retorno[1].funcion = "actualizar_fluido"
        /\ retorno[1].error = "none") => FronterasDelFluido(retorno[1].valor)
    /\ EnCorrida =>
          /\ T_fluido[0] = T_f_in
          /\ \A i \in 1 .. Len(historico.tiempo) : historico.T_fluido[i][0] = T_f_in
          /\ (n > 0 \/ pc \in EtapasConCopias \ {"acople_fluido", "fluido"}) =>
                FronterasDelFluido(T_fluido)

C20_Testigo ==
    /\ retorno # None
    /\ retorno[1].funcion = "actualizar_fluido"
    /\ retorno[1].error = "none"
    /\ T_fluido[0] # T_f_in
    /\ retorno[1].valor[0] = T_f_in
    /\ retorno[1].valor[Nx_fluido - 1] # T_fluido[Nx_fluido - 1]
    /\ retorno[1].valor[Nx_fluido - 1] # T_fluido[Nx_fluido - 2]

\* ------------------------------------------------------------------------
\* C21: one call of actualizar_fluido gives, at every interior node
\* 1 <= i <= Nx-2, T_new[i] = T_old[i] - CFL * (T_old[i] - T_old[i-1])
\* - gamma * dt * (T_old[i] - T_s[i]) with CFL = u * dt / dx, the neighbour
\* being the upstream node i-1 and every term taken from the field handed
\* in; after the first step of a run node 1, next to the hot inlet, is at
\* T_inicial + CFL * (T_f_in - T_inicial).
\* ------------------------------------------------------------------------
InteriorFluido == 1 .. (Nx_fluido - 2)

Ecuacion11(T_old, T_s, paso, i) ==
    T_old[i]
    - MulPpm((u * paso) \div dx_fluido, T_old[i] - T_old[i - 1])
    - MulPpm(MulPpm(gamma, paso), T_old[i] - T_s[i])

BordesSinGradiente(T) ==
    \A j \in IdxPlacaY :
        /\ T[0][j] = T[1][j]
        /\ T[Nx_placa - 1][j] = T[Nx_placa - 2][j]

C22_BordesLateralesDeLaPlaca ==
    /\ (/\ retorno # None
        /\ retorno[1].funcion = "actualizar_placa"
        /\ retorno[1].error = "none") => BordesSinGradiente(retorno[1].valor)
    /\ (/\ EnCorrida
        /\ n > 0 \/ pc \in {"acople_aletas", "aleta", "convergencia", "balance",
                            "guardar", "salida"}) => BordesSinGradiente(T_placa)

C22_Testigo ==
    /\ retorno # None
    /\ retorno[1].funcion = "actualizar_placa"
    /\ retorno[1].error = "none"
    /\ T_placa[0][Ny_placa - 1] # T_placa[1][Ny_placa - 1]
    /\ T_placa[Nx_placa - 1][Ny_placa - 1] # T_placa[Nx_placa - 2][Ny_placa - 1]
    /\ retorno[1].valor[0][Ny_placa - 1] # T_placa[0][Ny_placa - 1]
    /\ retorno[1].valor[0][0] # T_placa[0][0]

\* ------------------------------------------------------------------------
\* C23: from a field uniform at T0, one update moves every non-edge node of
\* the plate's liquid face toward the fluid temperature over it, every
\* non-edge node of the plate's air face and of the fin's outer ring toward
\* T_inf, and leaves the node where it is when its reference equals T0, for
\* either sign of the difference.
\* ------------------------------------------------------------------------
Signo(a) == IF a > 0 THEN 1 ELSE IF a < 0 THEN -1 ELSE 0

EsUniforme(T) == \A a, b \in DOMAIN T : \A c \in DOMAIN T[a], d \in DOMAIN T[b] : T[a][c] = T[b][d]

\* the convective term 2 Fo * coef * (T_ref - T0) amounts to one unit of
\* temperature at least
Apreciable(Fo, coef, dif) == MulPpm(2 * Fo, MulPpm(coef, Abs(dif))) > 0

\* a node that was at T0 and is at T_nuevo has moved toward T_ref
HaciaLaReferencia(T_nuevo, T0, T_ref, Fo, coef) ==
    /\ T_ref = T0 => T_nuevo = T0
    /\ Signo(T_nuevo - T0) \in {0, Signo(T_ref - T0)}
    /\ Apreciable(Fo, coef, T_ref - T0) => Signo(T_nuevo - T0) = Signo(T_ref - T0)

MallaDelConstructor ==
    [Nx_fluido |-> 60, Nx_placa |-> 60, Ny_placa |-> 20, Nr_aleta |-> 10, Ntheta_aleta |-> 20]

\* 1 / dx_placa^2 + 1 / dy_placa^2 in ppm of (1/6 mm)^-2
Fo_total_inv_de(g) ==
    ((10000 * (g.Nx_placa - 1) * (g.Nx_placa - 1)) \div ((L_x * L_x) \div 100))
    + ((10000 * (g.Ny_placa - 1) * (g.Ny_placa - 1)) \div ((e_base * e_base) \div 100))

\* the step of the constructor [microseconds]
dt_de(mat, g) ==
    LET fourier == 500000000 \div ((alpha_s(mat) * Fo_total_inv_de(g)) \div 1000)
        cfl == (L_x * 1000000) \div ((g.Nx_fluido - 1) * u)
    IN (8 * Min(fourier, cfl)) \div 10

\* the properties CFL, Fo_x + Fo_y and Fo_r + Fo_theta / r^2 of an object
\* with that mat and that stored step [ppm]
CFL_de(paso, g) == (u * paso * (g.Nx_fluido - 1)) \div L_x
fourier_placa_de(mat, paso, g) ==
    (((alpha_s(mat) * paso) \div 10000) * Fo_total_inv_de(g)) \div 100
fourier_aleta_de(mat, paso, g) ==
    (((alpha_s(mat) * paso) \div 1000)
        * (1000 * ((g.Nr_aleta - 1) * (g.Nr_aleta - 1) + 1))) \div (R * R)

verificar_estabilidad(mat, paso, g) ==
    /\ CFL_de(paso, g) <= 1000000
    /\ fourier_placa_de(mat, paso, g) <= 500000
    /\ fourier_aleta_de(mat, paso, g) <= 500000

\* Parametros(material): the object, or the AssertionError of the constructor
Parametros(mat) ==
    LET paso == dt_de(mat, MallaDelConstructor)
    IN IF /\ mat \in Materiales
          /\ 1 < paso /\ paso < 50000
          /\ verificar_estabilidad(mat, paso, MallaDelConstructor)
       THEN Ok([material |-> mat, dt |-> paso])
       ELSE Falla("AssertionError")

InitParametros ==
    /\ pc = "construir"
    /\ material \in Materiales
    /\ dt = 0 /\ punto = <<0, 0>> /\ retorno = None
    /\ t_max = 0 /\ epsilon = 1 /\ guardar_cada = 1 /\ calcular_balance = FALSE
    /\ primera = None
    /\ archivo = None
    /\ progress_file = None /\ progreso = None /\ llamador = SinLlamador
    /\ n = 0 /\ subpaso = 0 /\ k = 0
    /\ T_fluido = inicializar_fluido
    /\ T_placa = inicializar_placa
    /\ T_aletas = [kk \in Aletas |-> inicializar_aleta]
    /\ T_fluido_old = inicializar_fluido
    /\ T_placa_old = inicializar_placa
    /\ T_aletas_old = [kk \in Aletas |-> inicializar_aleta]
    /\ T_sup_interpolada = [i \in IdxFluido |-> T_inicial]
    /\ converged = FALSE
    /\ max_rate = 0
    /\ t_actual = 0
    /\ historico = [tiempo |-> <<>>, T_fluido |-> <<>>, T_placa |-> <<>>, T_aletas |-> <<>>]
    /\ metricas = [balance |-> <<>>, max_rate_historia |-> <<>>]
    /\ balance = None
    /\ error = "none"
    /\ resultados = None

\* params = Parametros(material)
ConstruirParametros ==
    /\ pc = "construir"
    /\ LET res == Parametros(material)
       IN IF res.error = "none"
          THEN /\ dt' = res.valor.dt
               /\ pc' = "construido"
               /\ UNCHANGED error
          ELSE /\ Abortar(res.error)
               /\ UNCHANGED dt
    /\ UNCHANGED <<exterior, archivo, punto, retorno, primera, entradas, n, subpaso, k, campos, campos_old,
                   T_sup_interpolada, converged, max_rate, t_actual,
                   historico, metricas, balance, resultados>>

\* params.set_material(nuevo): the four properties of the solid are
\* replaced (alpha_s, k_s, rho_s, cp_s follow material); dt is not assigned
SetMaterial ==
    /\ pc = "construido"
    /\ \E nuevo \in Materiales : material' = nuevo
    /\ UNCHANGED <<exterior, archivo, llamada, primera, t_max, epsilon, guardar_cada, calcular_balance,
                   pc, n, subpaso, k, campos, campos_old,
                   T_sup_interpolada, converged, max_rate, t_actual,
                   historico, metricas, balance, error, resultados>>

NextParametros == ConstruirParametros \/ SetMaterial

\* runs of resolver_sistema, and Parametros objects on their own
SpecParametros == (Init \/ InitParametros) /\ [][Next \/ NextParametros]_vars

\* ------------------------------------------------------------------------
\* C24: a Parametros object satisfies Fo_x + Fo_y <= 0.5 and CFL <= 1 for
\* its stored dt after construction and after any sequence of set_material
\* calls.
\* ------------------------------------------------------------------------
C24_EstableTrasSetMaterial ==
    pc = "construido" =>
        /\ fourier_placa_de(material, dt, MallaDelConstructor) <= 500000
        /\ CFL_de(dt, MallaDelConstructor) <= 1000000

\* ------------------------------------------------------------------------
\* C25: the snapshot history of resolver_sistema only grows, in order: its
\* first entry is the initial state at t = 0 (every node at T_inicial, the
\* inlet of the fluid at T_f_in), an outer iteration adds one snapshot at
\* most, the times increase strictly, the lists tiempo, T_fluido, T_placa
\* and T_aletas have the same length at all times, and an entry, once
\* stored, is never changed by a later step.
\* ------------------------------------------------------------------------
HistoricoOrdenado ==
    /\ Len(historico.T_fluido) = Len(historico.tiempo)
    /\ Len(historico.T_placa) = Len(historico.tiempo)
    /\ Len(historico.T_aletas) = Len(historico.tiempo)
    /\ pc \notin {"inicio", "abortado"} => Len(historico.tiempo) >= 1
    /\ Len(historico.tiempo) >= 1 =>
          /\ historico.tiempo[1] = 0
          /\ historico.T_fluido[1] = inicializar_fluido
          /\ historico.T_placa[1] = inicializar_placa
          /\ historico.T_aletas[1] = [kk \in Aletas |-> inicializar_aleta]
    /\ \A i \in 1 .. (Len(historico.tiempo) - 1) :
          historico.tiempo[i] < historico.tiempo[i + 1]
    /\ Len(historico.tiempo) <= n + 2
    /\ pc \in {"bucle", "acople_fluido", "fluido", "placa", "acople_aletas", "aleta",
               "convergencia", "balance", "guardar"} => Len(historico.tiempo) <= n + 1

\* the history after a step is the history before it, or that with one
\* entry more, the state of that moment
HistoricoSoloCrece ==
    \/ historico' = historico
    \/ LET largo == Len(historico.tiempo)
       IN /\ pc \in {"inicio", "guardar"}
          /\ Len(historico'.tiempo) = largo + 1
          /\ SubSeq(historico'.tiempo, 1, largo) = historico.tiempo
          /\ SubSeq(historico'.T_fluido, 1, largo) = historico.T_fluido
          /\ SubSeq(historico'.T_placa, 1, largo) = historico.T_placa
          /\ SubSeq(historico'.T_aletas, 1, largo) = historico.T_aletas
          /\ historico'.tiempo[largo + 1] = (IF pc = "inicio" THEN 0 ELSE t_actual)
          /\ historico'.T_fluido[largo + 1] = T_fluido
          /\ historico'.T_placa[largo + 1] = T_placa
          /\ historico'.T_aletas[largo + 1] = T_aletas

C25_HistoricoSoloCrece == []HistoricoOrdenado /\ [][HistoricoSoloCrece]_vars

\* a finished run with an iteration that stored nothing and a last snapshot
\* that differs from the first
C25_Testigo ==
    /\ pc = "fin"
    /\ Len(historico.tiempo) >= 3
    /\ Len(historico.tiempo) <= n
    /\ Ultimo(historico.T_placa) # historico.T_placa[1]
    /\ historico.T_placa[1] = inicializar_placa
    /\ resultados[1].T_placa = historico.T_placa

\* ------------------------------------------------------------------------
\* C26: with t_max smaller than one plate step resolver_sistema runs no
\* outer iteration and still returns, without error, a complete result:
\* one snapshot only, the initial state at t = 0, alcanzada false,
\* t_convergencia None, and empty histories of max rate and energy balance.
\* ------------------------------------------------------------------------
SinIteraciones ==
    /\ n = 0 /\ subpaso = 0
    /\ T_fluido = inicializar_fluido
    /\ T_placa = inicializar_placa
    /\ T_aletas = [kk \in Aletas |-> inicializar_aleta]
    /\ converged = FALSE
    /\ metricas = [balance |-> <<>>, max_rate_historia |-> <<>>]

ResultadoSinIteraciones(res) ==
    /\ res.tiempo = <<0>>
    /\ res.T_fluido = <<inicializar_fluido>>
    /\ res.T_placa = <<inicializar_placa>>
    /\ res.T_aletas = <<[kk \in Aletas |-> inicializar_aleta]>>
    /\ res.convergencia = [alcanzada |-> FALSE, t_convergencia |-> None]
    /\ res.metricas = [balance |-> <<>>, max_rate_historia |-> <<>>]

C26_TiempoMenorQueUnPaso ==
    (t_max < dt_placa /\ DtAletasValido(material)) =>
        /\ pc \in {"inicio", "bucle", "resultados", "fin"}
        /\ error = "none"
        /\ SinIteraciones
        /\ pc # "fin" => ENABLED Next
        /\ pc = "fin" <=> resultados # None
        /\ pc = "fin" => ResultadoSinIteraciones(resultados[1])

C26_Testigo ==
    /\ 0 < t_max /\ t_max < dt_placa
    /\ calcular_balance
    /\ pc = "fin"
    /\ resultados # None
    /\ Len(resultados[1].tiempo) = 1

\* ------------------------------------------------------------------------
\* main.py, ejecutar_simulacion: Parametros(material), the grids, then
\* resolver_sistema with guardar_cada = 200 and no progress file, all inside
\* one try whose handler reports the exception and returns None.
\* ------------------------------------------------------------------------
InitSimulacion ==
    /\ pc = "ejecutar_simulacion"
    /\ material \in Materiales \cup {"Cu"}
    /\ t_max \in TMaxValores(material)
    /\ epsilon \in Epsilones
    /\ guardar_cada = 200
    /\ calcular_balance \in BOOLEAN
    /\ primera = None
    /\ dt = 0 /\ punto = <<0, 0>> /\ retorno = None
    /\ archivo = None
    /\ progress_file = None /\ progreso = None
    /\ llamador = [SinLlamador EXCEPT !.funcion = "ejecutar_simulacion", !.pc = "try"]
    /\ n = 0 /\ subpaso = 0 /\ k = 0
    /\ T_fluido = inicializar_fluido
    /\ T_placa = inicializar_placa
    /\ T_aletas = [kk \in Aletas |-> inicializar_aleta]
    /\ T_fluido_old = inicializar_fluido
    /\ T_placa_old = inicializar_placa
    /\ T_aletas_old = [kk \in Aletas |-> inicializar_aleta]
    /\ T_sup_interpolada = [i \in IdxFluido |-> T_inicial]
    /\ converged = FALSE
    /\ max_rate = 0
    /\ t_actual = 0
    /\ historico = [tiempo |-> <<>>, T_fluido |-> <<>>, T_placa |-> <<>>, T_aletas |-> <<>>]
    /\ metricas = [balance |-> <<>>, max_rate_historia |-> <<>>]
    /\ balance = None
    /\ error = "none"
    /\ resultados = None

\* params = Parametros(material=material); mallas = generar_todas_mallas(params)
ConfigurarSimulacion ==
    /\ pc = "ejecutar_simulacion"
    /\ llamador.pc = "try"
    /\ LET res == Parametros(material)
       IN IF res.error = "none"
          THEN /\ dt' = params_dt(material)
               /\ pc' = "inicio"
               /\ UNCHANGED error
          ELSE /\ Abortar(res.error)
               /\ UNCHANGED dt
    /\ UNCHANGED <<exterior, archivo, punto, retorno, primera, entradas, n, subpaso, k,
                   campos, campos_old, T_sup_interpolada, converged, max_rate, t_actual,
                   historico, metricas, balance, resultados>>

\* the exception leaving ejecutar_simulacion instead of being handled
DevolverSimulacion_sin_manejador ==
    /\ llamador.funcion = "ejecutar_simulacion"
    /\ llamador.pc = "try"
    /\ pc \in {"fin", "abortado"}
    /\ llamador' = IF pc = "fin"
                   THEN [llamador EXCEPT !.pc = "devuelto", !.valor = resultados]
                   ELSE [llamador EXCEPT !.pc = "excepcion", !.error = error]
    /\ UNCHANGED <<progress_file, progreso, archivo, llamada, primera, entradas, pc, n, subpaso, k,
                   campos, campos_old, T_sup_interpolada, converged, max_rate, t_actual,
                   historico, metricas, balance, error, resultados>>

\* return resultados at the end of the try, return None in the handler
DevolverSimulacion ==
    /\ llamador.funcion = "ejecutar_simulacion"
    /\ llamador.pc = "try"
    /\ pc \in {"fin", "abortado"}
    /\ llamador' = [llamador EXCEPT !.pc = "devuelto",
                                    !.valor = IF pc = "fin" THEN resultados ELSE None]
    /\ UNCHANGED <<progress_file, progreso, archivo, llamada, primera, entradas, pc, n, subpaso, k,
                   campos, campos_old, T_sup_interpolada, converged, max_rate, t_actual,
                   historico, metricas, balance, error, resultados>>

NextSimulacion == ConfigurarSimulacion \/ Next \/ DevolverSimulacion

SpecSimulacion == InitSimulacion /\ [][NextSimulacion]_vars

\* ------------------------------------------------------------------------
\* C27: ejecutar_simulacion returns None exactly when the configuration or
\* the simulation raised an exception; when resolver_sistema completes it
\* returns the bundle resolver_sistema produced; no exception leaves it.
\* ------------------------------------------------------------------------
C27_NoneSiYSoloSiError ==
    llamador.funcion = "ejecutar_simulacion" =>
        /\ llamador.error = "none"
        /\ llamador.pc \in {"try", "devuelto"}
        /\ (llamador.pc = "try" /\ pc \in {"fin", "abortado"}) => ENABLED DevolverSimulacion
        /\ llamador.pc = "devuelto" =>
              /\ llamador.valor = None <=> error # "none"
              /\ error = "none" => (resultados # None /\ llamador.valor = resultados)
              /\ material \notin Materiales => llamador.valor = None

\* the call with the default calcular_balance = True: the NameError of the
\* balance block has been turned into None
C27_Testigo ==
    /\ llamador.funcion = "ejecutar_simulacion"
    /\ llamador.pc = "devuelto"
    /\ material = "Al"
    /\ calcular_balance
    /\ error = "NameError"
    /\ llamador.valor = None

\* ------------------------------------------------------------------------
\* resolver_sistema called with a progress file (as interfaz_web.py calls
\* it): the runs of the aluminium preset without energy balance
\* ------------------------------------------------------------------------
InitProgreso ==
    /\ material = "Al"
    /\ t_max \in {c * params_dt(material) : c \in 0 .. MaxPasos}
    /\ epsilon \in {1, 300000}
    /\ guardar_cada \in {1, 2}
    /\ calcular_balance = FALSE
    /\ primera = None
    /\ dt = params_dt(material) /\ punto = <<0, 0>> /\ retorno = None
    /\ archivo = None
    /\ progress_file = Some("progress") /\ progreso = None /\ llamador = SinLlamador
    /\ EstadoInicial

NextProgreso == Next \/ EscribirProgreso

SpecProgreso == InitProgreso /\ [][NextProgreso]_vars

\* ------------------------------------------------------------------------
\* C29: a progress line (simulated time, max rate, mean temperatures of
\* fluid, plate and fins, percent complete) is written only in an iteration
\* that records a snapshot; its percentage is (n + 1) / n_max * 100, lies in
\* (0, 100], does not decrease over the run and is 100 only in the last
\* iteration allowed; a failure to write the file does not stop the
\* simulation and changes neither the fields nor the snapshot history nor
\* the outcome of the convergence check.
\* ------------------------------------------------------------------------
IteracionConInstantanea == n % guardar_cada = 0 \/ converged \/ n = n_pasos_max - 1

LineaCompleta == progreso # None /\ Len(progreso[1]) = 7

\* the file holds what was written in iteration i
LineaDeLaIteracion(i) ==
    /\ progreso[1][1] = Redondear((i + 1) * dt_placa, 10000)
    /\ progreso[1][6] = Redondear(((i + 1) * 100000) \div n_pasos_max, 100)
    /\ 0 < progreso[1][6] /\ progreso[1][6] <= 1000
    /\ progreso[1][6] = 1000 <=> i = n_pasos_max - 1

ProgresoCoherente ==
    /\ progress_file = None => progreso = None
    /\ pc = "progreso" =>
          /\ IteracionConInstantanea
          /\ Ultimo(historico.tiempo) = t_actual
          /\ Ultimo(historico.T_fluido) = T_fluido
    /\ LineaCompleta =>
          \E i \in 0 .. n : LineaDeLaIteracion(i)
    /\ \A a, b \in 0 .. (n_pasos_max - 1) :
          a < b => Redondear(progreso_pct(a), 100) < Redondear(progreso_pct(b), 100)

PasoDeProgreso ==
    /\ n' >= n
    /\ progreso' # progreso =>
          /\ pc \in {"guardar", "progreso"}
          /\ IteracionConInstantanea
          /\ UNCHANGED <<n, t_actual>>
    /\ (LineaCompleta' /\ progreso' # progreso) =>
          /\ progreso'[1] = LineaDeProgreso
          /\ LineaDeLaIteracion(n)'
    /\ (LineaCompleta /\ LineaCompleta') => progreso'[1][6] >= progreso[1][6]
    /\ pc = "guardar" =>
          /\ pc' \in {"progreso", "salida"}
          /\ historico' = IF IteracionConInstantanea
                          THEN guardar_estado(historico, t_actual, T_fluido, T_placa, T_aletas)
                          ELSE historico
    /\ pc = "progreso" => (pc' \in {"progreso", "salida"} /\ UNCHANGED historico)
    /\ pc \in {"guardar", "progreso"} =>
          UNCHANGED <<campos, campos_old, converged, max_rate, metricas, error, resultados, n>>

InteriorAleta == {<<m, j>> : m \in 1 .. (Ntheta_aleta - 2), j \in 1 .. (Nr_aleta - 2)}

\* the central difference (T[j+1] - T[j-1]) / (2 * dr) divided by r_j = j * dr
\* and multiplied by dr^2, as the term stands inside Fo_r * [...]
PrimeraDerivadaCentrada(T_old, m, j) ==
    Div(T_old[m][j + 1] - T_old[m][j - 1], 2 * j)

Ecuacion15Centrada(T_old, mat, paso, m, j) ==
    T_old[m][j]
    + MulPpm(Fo_r(mat, paso),
             (T_old[m][j + 1] - 2 * T_old[m][j] + T_old[m][j - 1])
             + PrimeraDerivadaCentrada(T_old, m, j))
    + MulPpm(Fo_theta_efectivo(mat, paso, r_array[j]),
             T_old[m + 1][j] - 2 * T_old[m][j] + T_old[m - 1][j])

C30_FormulaInteriorAleta ==
    (/\ retorno # None
     /\ retorno[1].funcion = "actualizar_aleta"
     /\ retorno[1].error = "none") =>
        \A p \in InteriorAleta :
            Abs(retorno[1].valor[p[1]][p[2]]
                - Ecuacion15Centrada(T_aletas_old[k], material, dt, p[1], p[2])) <= 1


\* ------------------------------------------------------------------------
\* interfaz_web.py: resolver_sistema runs in the thread sim_thread while the
\* main thread reads the progress file every half second.  The variable pc
\* is the position of the thread, llamador.pc the position of the main one.
\* ------------------------------------------------------------------------
MaxPasosWeb == 2

InitWeb ==
    /\ material \in Materiales
    /\ t_max \in {c * params_dt(material) : c \in 0 .. MaxPasosWeb}
    /\ epsilon = 1
    /\ guardar_cada = 1
    /\ calcular_balance \in BOOLEAN
    /\ primera = None
    /\ dt = params_dt(material) /\ punto = <<0, 0>> /\ retorno = None
    /\ archivo = None
    /\ progress_file = Some("progress") /\ progreso = None
    /\ llamador = [SinLlamador EXCEPT !.funcion = "interfaz_web", !.pc = "monitor"]
    /\ EstadoInicial

HiloVivo == pc # "hilo_terminado"

\* the end of run_simulation: resultados[0] = result, or the handler
\* error_container[0] = e; the thread is no longer alive afterwards
HiloTermina ==
    /\ llamador.funcion = "interfaz_web"
    /\ pc \in {"fin", "abortado"}
    /\ pc' = "hilo_terminado"
    /\ llamador' = IF pc = "fin"
                   THEN [llamador EXCEPT !.contenedor = resultados]
                   ELSE [llamador EXCEPT !.error_container = error]
    /\ UNCHANGED <<progress_file, progreso, archivo, llamada, primera, entradas, n, subpaso, k,
                   campos, campos_old, T_sup_interpolada, converged, max_rate, t_actual,
                   historico, metricas, balance, error, resultados>>

\* the steps of the thread
PasoDelHilo == Next \/ EscribirProgreso \/ HiloTermina

\* what the main thread leaves alone in every step of its own
SoloElLlamador ==
    UNCHANGED <<progress_file, archivo, llamada, primera, entradas, pc, n, subpaso, k,
                campos, campos_old, T_sup_interpolada, converged, max_rate, t_actual,
                historico, metricas, balance, error, resultados>>

\* while sim_thread.is_alive():
VigilarHilo ==
    /\ llamador.funcion = "interfaz_web"
    /\ llamador.pc = "monitor"
    /\ llamador' = [llamador EXCEPT !.pc = IF HiloVivo THEN "leer" ELSE "join"]
    /\ UNCHANGED progreso
    /\ SoloElLlamador

\* line.split('|') and the six float(parts[i]): fewer than six fields raise
\* IndexError or ValueError; a sixth field that was cut is still a number
SeisNumeros(contenido) == Len(contenido) >= 6

\* the body of the loop with the exception leaving it
LeerProgreso_sin_except ==
    /\ llamador.funcion = "interfaz_web"
    /\ llamador.pc = "leer"
    /\ llamador' =
          IF progreso = None \/ progreso[1] = <<>>
          THEN [llamador EXCEPT !.pc = "monitor"]
          ELSE IF SeisNumeros(progreso[1])
               THEN [llamador EXCEPT !.pc = "monitor",
                                     !.mostrado = Some(SubSeq(progreso[1], 1, 6))]
               ELSE [llamador EXCEPT !.pc = "excepcion", !.error = "IndexError"]
    /\ UNCHANGED progreso
    /\ SoloElLlamador

\* the body of the loop: if the file exists and its text is not empty, the
\* six numbers are parsed and shown; any exception is dropped (except: pass);
\* then time.sleep(0.5)
LeerProgreso ==
    /\ llamador.funcion = "interfaz_web"
    /\ llamador.pc = "leer"
    /\ llamador' =
          IF progreso # None /\ progreso[1] # <<>> /\ SeisNumeros(progreso[1])
          THEN [llamador EXCEPT !.pc = "monitor",
                                !.mostrado = Some(SubSeq(progreso[1], 1, 6))]
          ELSE [llamador EXCEPT !.pc = "monitor"]
    /\ UNCHANGED progreso
    /\ SoloElLlamador

\* sim_thread.join() returns when the thread has ended
Unir ==
    /\ llamador.funcion = "interfaz_web"
    /\ llamador.pc = "join"
    /\ ~HiloVivo
    /\ llamador' = [llamador EXCEPT !.pc = "limpiar"]
    /\ UNCHANGED progreso
    /\ SoloElLlamador

\* os.remove(progress_file) if it exists; a failure is dropped
Limpiar ==
    /\ llamador.funcion = "interfaz_web"
    /\ llamador.pc = "limpiar"
    /\ llamador' = [llamador EXCEPT !.pc = "verificar"]
    /\ progreso' = None \/ UNCHANGED progreso
    /\ SoloElLlamador

\* if error_container[0] is not None: raise error_container[0];
\* resultados = resultados[0]
Recoger ==
    /\ llamador.funcion = "interfaz_web"
    /\ llamador.pc = "verificar"
    /\ llamador' = IF llamador.error_container # "none"
                   THEN [llamador EXCEPT !.pc = "relanzado", !.error = llamador.error_container]
                   ELSE [llamador EXCEPT !.pc = "completado", !.valor = llamador.contenedor]
    /\ UNCHANGED progreso
    /\ SoloElLlamador

PasoPrincipal == VigilarHilo \/ LeerProgreso \/ Unir \/ Limpiar \/ Recoger

NextWeb == PasoDelHilo \/ PasoPrincipal

SpecWeb == InitWeb /\ [][NextWeb]_vars

\* the main thread is scheduled again and again: the interpreter switches
\* threads at regular intervals, time.sleep(0.5) returns, and join returns
\* once the thread has ended
SpecWebJusta == SpecWeb /\ WF_vars(PasoPrincipal)

\* ------------------------------------------------------------------------
\* C28: with the simulation in a worker thread and the main thread polling
\* the progress file, under every interleaving of the worker's truncation
\* and writing of the file with the monitor's read (file missing, empty or
\* partly written) the monitor loop raises nothing and changes nothing of
\* the simulation; the loop ends once the worker has finished; the result
\* is read only after the join; an exception raised inside the worker is
\* raised again in the main thread after the join and is never lost.
\* ------------------------------------------------------------------------
DespuesDelJoin == {"limpiar", "verificar", "relanzado", "completado"}

LlamadorCoherente ==
    /\ llamador.pc \in {"monitor", "leer", "join"} \cup DespuesDelJoin
    /\ llamador.error # "none" <=> llamador.pc = "relanzado"
    /\ llamador.valor # None <=> llamador.pc = "completado"
    /\ llamador.pc \in {"join"} \cup DespuesDelJoin => ~HiloVivo
    /\ ~HiloVivo =>
          /\ llamador.error_container = error
          /\ llamador.contenedor = resultados
          /\ error = "none" <=> resultados # None
    /\ llamador.pc = "relanzado" => llamador.error = error
    /\ llamador.pc = "completado" => llamador.valor = resultados
    /\ llamador.mostrado # None => Len(llamador.mostrado[1]) = 6

\* a step of the main thread changes nothing the simulation reads or writes,
\* and the file only when it removes it after the join
PasoSinEfecto ==
    llamador' # llamador /\ pc' = pc =>
        /\ SoloElLlamador
        /\ progreso' # progreso => (llamador.pc = "limpiar" /\ progreso' = None)

C28_MonitorYResultado ==
    /\ []LlamadorCoherente
    /\ [][PasoSinEfecto]_vars
    /\ (~HiloVivo) ~> (llamador.pc \in {"relanzado", "completado"})

\* the monitor showed a line whose last field had been cut (10.0 of 100.0),
\* the loop ended and the bundle of the worker was taken after the join
C28_Testigo ==
    /\ llamador.pc = "completado"
    /\ llamador.valor = resultados
    /\ llamador.mostrado # None
    /\ llamador.mostrado[1][6] = 100

====
